---- MODULE Spec2Model ----
(***************************************************************************)
(* A model of the pixel-analysis core of macoma: region segmentation       *)
(* (zone.FindZones, Zone.InteriorPoint), palette reduction                 *)
(* (aggregation.ReduceColors over color.DistanceLAB / color.WeightedMean)  *)
(* and boundary classification (detection.ColorDelimiter.Detect).          *)
(*                                                                         *)
(* Each algorithm has its own specification over its own variable; the     *)
(* variables of the other algorithms stay at their idle value.             *)
(***************************************************************************)
EXTENDS Integers, Sequences, FiniteSets, TLC

VARIABLES fz, ip, rc, det, par, czc, wm, pl, te, dlab

vars == <<fz, ip, rc, det, par, czc, wm, pl, te, dlab>>

Idle == [pc |-> "idle"]

(***************************************************************************)
(* Bounds of the model.                                                    *)
(***************************************************************************)
\* largest bitmap width and height given to FindZones
MaxW == 3
MaxH == 2

(***************************************************************************)
(* image.Point and small helpers.                                          *)
(***************************************************************************)
Pt(x, y) == [X |-> x, Y |-> y]

SeqToSet(s) == {s[i] : i \in 1..Len(s)}

\* number of positions of sequence s holding element e
Occurrences(s, e) == Cardinality({i \in 1..Len(s) : s[i] = e})

(***************************************************************************)
(* zone.FindZones: a row-major scan that starts a breadth-first flood fill *)
(* at every unlabeled filler pixel.                                        *)
(***************************************************************************)
\* the offsets with the diagonals added (a mutant of Dirs)
Dirs8 == <<Pt(-1, 0), Pt(1, 0), Pt(0, -1), Pt(0, 1),
           Pt(-1, -1), Pt(1, 1), Pt(1, -1), Pt(-1, 1)>>

\* the four neighbour offsets, in the order the fill loop visits them
Dirs == <<Pt(-1, 0), Pt(1, 0), Pt(0, -1), Pt(0, 1)>>

\* the state of FindZones after its declarations and the label reset loop
FZInit(w, h, isDelimiter) ==
    [pc |-> "scan", w |-> w, h |-> h, IsDelimiter |-> isDelimiter,
     labels |-> [i \in 0..(w * h - 1) |-> -1],
     zones |-> <<>>, zoneID |-> 0, x |-> 0, y |-> 0,
     zone |-> [ID |-> 0, Pixels |-> <<>>], queue |-> <<>>]

\* the fill loop's neighbour loop for the popped pixel p, from direction k on:
\* the labels and the queue after it
RECURSIVE Expand(_, _, _, _)
Expand(s, labels, queue, k) ==
    IF k > Len(Dirs) THEN [labels |-> labels, queue |-> queue]
    ELSE LET p  == s.p
             nx == p.X + Dirs[k].X
             ny == p.Y + Dirs[k].Y
             ni == ny * s.w + nx
         IN IF nx < 0 \/ nx >= s.w \/ ny < 0 \/ ny >= s.h
              THEN Expand(s, labels, queue, k + 1)
            ELSE IF s.IsDelimiter[ni] \/ labels[ni] # -1
              THEN Expand(s, labels, queue, k + 1)
            ELSE Expand(s, [labels EXCEPT ![ni] = s.zoneID],
                        Append(queue, Pt(nx, ny)), k + 1)

\* outer loop condition false: return zones, labels
ScanExit ==
    /\ fz.pc = "scan"
    /\ fz.y >= fz.h
    /\ fz' = [fz EXCEPT !.pc = "done"]
    /\ UNCHANGED <<ip, rc, det, par, czc, wm, pl, te, dlab>>

\* inner loop condition false: next row
ScanRowEnd ==
    /\ fz.pc = "scan"
    /\ fz.y < fz.h
    /\ fz.x >= fz.w
    /\ fz' = [fz EXCEPT !.y = fz.y + 1, !.x = 0]
    /\ UNCHANGED <<ip, rc, det, par, czc, wm, pl, te, dlab>>

\* a delimiter pixel or an already labeled pixel: continue
ScanSkip ==
    /\ fz.pc = "scan"
    /\ fz.y < fz.h
    /\ fz.x < fz.w
    /\ LET idx == fz.y * fz.w + fz.x
       IN /\ fz.IsDelimiter[idx] \/ fz.labels[idx] # -1
          /\ fz' = [fz EXCEPT !.x = fz.x + 1]
    /\ UNCHANGED <<ip, rc, det, par, czc, wm, pl, te, dlab>>

\* ScanStart without the label of the start pixel (a mutant)
ScanStartNoLabel ==
    /\ fz.pc = "scan"
    /\ fz.y < fz.h
    /\ fz.x < fz.w
    /\ LET idx == fz.y * fz.w + fz.x
       IN /\ ~(fz.IsDelimiter[idx] \/ fz.labels[idx] # -1)
          /\ fz' = [fz EXCEPT !.pc = "fill",
                              !.zone = [ID |-> fz.zoneID, Pixels |-> <<>>],
                              !.queue = <<Pt(fz.x, fz.y)>>]
    /\ UNCHANGED <<ip, rc, det, par, czc, wm, pl, te, dlab>>

\* an unlabeled filler pixel: a new zone, its queue holding the pixel
ScanStart ==
    /\ fz.pc = "scan"
    /\ fz.y < fz.h
    /\ fz.x < fz.w
    /\ LET idx == fz.y * fz.w + fz.x
       IN /\ ~(fz.IsDelimiter[idx] \/ fz.labels[idx] # -1)
          /\ fz' = [fz EXCEPT !.pc = "fill",
                              !.zone = [ID |-> fz.zoneID, Pixels |-> <<>>],
                              !.queue = <<Pt(fz.x, fz.y)>>,
                              !.labels[idx] = fz.zoneID]
    /\ UNCHANGED <<ip, rc, det, par, czc, wm, pl, te, dlab>>

\* FillPop putting the popped pixel at the front of the zone's list (a mutant)
FillPopPrepend ==
    /\ fz.pc = "fill"
    /\ Len(fz.queue) > 0
    /\ LET p == Head(fz.queue)
           e == Expand([p |-> p, w |-> fz.w, h |-> fz.h,
                        IsDelimiter |-> fz.IsDelimiter, zoneID |-> fz.zoneID],
                       fz.labels, Tail(fz.queue), 1)
       IN fz' = [fz EXCEPT !.zone.Pixels = <<p>> \o fz.zone.Pixels,
                           !.labels = e.labels,
                           !.queue = e.queue]
    /\ UNCHANGED <<ip, rc, det, par, czc, wm, pl, te, dlab>>

\* one iteration of the fill loop: pop, record, label and queue the neighbours
FillPop ==
    /\ fz.pc = "fill"
    /\ Len(fz.queue) > 0
    /\ LET p == Head(fz.queue)
           e == Expand([p |-> p, w |-> fz.w, h |-> fz.h,
                        IsDelimiter |-> fz.IsDelimiter, zoneID |-> fz.zoneID],
                       fz.labels, Tail(fz.queue), 1)
       IN fz' = [fz EXCEPT !.zone.Pixels = Append(fz.zone.Pixels, p),
                           !.labels = e.labels,
                           !.queue = e.queue]
    /\ UNCHANGED <<ip, rc, det, par, czc, wm, pl, te, dlab>>

\* FillEnd without the increment of the zone id (a mutant)
FillEndSameID ==
    /\ fz.pc = "fill"
    /\ Len(fz.queue) = 0
    /\ fz' = [fz EXCEPT !.pc = "scan",
                        !.zones = Append(fz.zones, fz.zone),
                        !.x = fz.x + 1]
    /\ UNCHANGED <<ip, rc, det, par, czc, wm, pl, te, dlab>>

\* the fill loop ends: the zone joins the list, the id advances, the scan goes on
FillEnd ==
    /\ fz.pc = "fill"
    /\ Len(fz.queue) = 0
    /\ fz' = [fz EXCEPT !.pc = "scan",
                        !.zones = Append(fz.zones, fz.zone),
                        !.zoneID = fz.zoneID + 1,
                        !.x = fz.x + 1]
    /\ UNCHANGED <<ip, rc, det, par, czc, wm, pl, te, dlab>>

InitZones ==
    /\ \E w \in 0..MaxW, h \in 0..MaxH :
         \E d \in [0..(w * h - 1) -> BOOLEAN] : fz = FZInit(w, h, d)
    /\ ip = Idle
    /\ rc = Idle
    /\ det = Idle
    /\ par = Idle
    /\ czc = Idle
    /\ wm = Idle
    /\ pl = Idle
    /\ te = Idle
    /\ dlab = Idle

NextZones ==
    \/ ScanExit
    \/ ScanRowEnd
    \/ ScanSkip
    \/ ScanStart
    \/ FillPop
    \/ FillEnd

SpecZones == InitZones /\ [][NextZones]_vars

(***************************************************************************)
(* Properties of the result of FindZones.                                  *)
(***************************************************************************)
FZDone == fz.pc = "done"

\* the pixels of the bitmap FindZones was given
FZPixels == {Pt(x, y) : x \in 0..(fz.w - 1), y \in 0..(fz.h - 1)}

FZIndex(p) == p.Y * fz.w + p.X

FZBoundary(p) == fz.IsDelimiter[FZIndex(p)]

\* the places <<zone, position>> of the returned zone lists that hold pixel p
FZPlaces(p) ==
    {<<k, i>> \in (1..Len(fz.zones)) \X (1..(fz.w * fz.h)) :
        i <= Len(fz.zones[k].Pixels) /\ fz.zones[k].Pixels[i] = p}

\* C1: the returned zones partition exactly the non-boundary pixels: every
\* non-boundary pixel is at exactly one place of exactly one zone's pixel
\* list, no boundary pixel is in any list, and the lists hold nothing else.
C1_ZonesPartitionFiller ==
    FZDone =>
      /\ \A k \in 1..Len(fz.zones) :
           /\ Len(fz.zones[k].Pixels) <= fz.w * fz.h
           /\ SeqToSet(fz.zones[k].Pixels) \subseteq FZPixels
      /\ \A p \in FZPixels :
           Cardinality(FZPlaces(p)) = IF FZBoundary(p) THEN 0 ELSE 1

\* C1 witness: a finished run over a bitmap with boundary pixels, several
\* zones and a zone of several pixels
C1_Witness ==
    /\ FZDone
    /\ Len(fz.zones) >= 2
    /\ \E p \in FZPixels : FZBoundary(p)
    /\ \E k \in 1..Len(fz.zones) : Len(fz.zones[k].Pixels) >= 3

\* C2: in the returned label grid, label[p] = k >= 0 exactly when p is in the
\* pixel list of zone k, and label[p] = -1 exactly when p is a boundary pixel;
\* so exactly one of boundary[p] and label[p] >= 0 holds.
C2_LabelsMatchZones ==
    FZDone =>
      \A p \in FZPixels :
        LET l == fz.labels[FZIndex(p)]
        IN /\ l >= -1
           /\ (l = -1) <=> FZBoundary(p)
           /\ FZBoundary(p) # (l >= 0)
           /\ \A k \in 0..(fz.w * fz.h) :
                (l = k) <=> /\ k < Len(fz.zones)
                            /\ p \in SeqToSet(fz.zones[k + 1].Pixels)

\* C2 witness: a finished run with a boundary pixel and a pixel of the
\* second zone
C2_Witness ==
    /\ FZDone
    /\ \E p \in FZPixels : FZBoundary(p) /\ fz.labels[FZIndex(p)] = -1
    /\ \E p \in FZPixels : fz.labels[FZIndex(p)] = 1

\* p and q are one step up, down, left or right of each other
Adjacent4(p, q) ==
    \/ p.X = q.X /\ (p.Y = q.Y + 1 \/ q.Y = p.Y + 1)
    \/ p.Y = q.Y /\ (p.X = q.X + 1 \/ q.X = p.X + 1)

\* the non-boundary pixels joined to a pixel of S by a 4-connected path
\* through non-boundary pixels
RECURSIVE Reach4(_)
Reach4(S) ==
    LET T == S \cup {q \in FZPixels :
                       ~FZBoundary(q) /\ \E p \in S : Adjacent4(p, q)}
    IN IF T = S THEN S ELSE Reach4(T)

\* C3: two non-boundary pixels get the same label exactly when a path of
\* up/down/left/right steps through non-boundary pixels joins them.
C3_ZonesAreComponents ==
    FZDone =>
      \A p \in FZPixels :
        ~FZBoundary(p) =>
          \A q \in FZPixels :
            ~FZBoundary(q) =>
              ((fz.labels[FZIndex(p)] = fz.labels[FZIndex(q)])
                 <=> q \in Reach4({p}))

\* C3 witness: a finished run where two filler pixels touch only diagonally
\* and are in different zones, and two pixels not next to each other share one
C3_Witness ==
    /\ FZDone
    /\ \E p, q \in FZPixels :
         /\ ~FZBoundary(p) /\ ~FZBoundary(q)
         /\ q.X = p.X + 1 /\ q.Y = p.Y + 1
         /\ fz.labels[FZIndex(p)] # fz.labels[FZIndex(q)]
    /\ \E p, q \in FZPixels :
         /\ ~FZBoundary(p) /\ ~FZBoundary(q)
         /\ p # q /\ ~Adjacent4(p, q)
         /\ fz.labels[FZIndex(p)] = fz.labels[FZIndex(q)]

(***************************************************************************)
(* Zone.Centroid and Zone.InteriorPoint. The loops of InteriorPoint run    *)
(* one iteration per step.                                                 *)
(***************************************************************************)
\* Go's integer division, which truncates toward zero (b > 0)
GoDiv(a, b) == IF a >= 0 THEN a \div b ELSE -((-a) \div b)

\* the sum of coordinate c of the pixels at positions lo..hi
RECURSIVE SumCoord(_, _, _, _)
SumCoord(Pixels, c, lo, hi) ==
    IF lo > hi THEN 0
    ELSE IF lo = hi THEN Pixels[lo][c]
    ELSE LET mid == (lo + hi) \div 2
         IN SumCoord(Pixels, c, lo, mid) + SumCoord(Pixels, c, mid + 1, hi)

Centroid(Pixels) ==
    IF Len(Pixels) = 0 THEN Pt(0, 0)
    ELSE Pt(GoDiv(SumCoord(Pixels, "X", 1, Len(Pixels)), Len(Pixels)),
            GoDiv(SumCoord(Pixels, "Y", 1, Len(Pixels)), Len(Pixels)))

\* the margin wanted from the zone's edge, and the zone size from which the
\* larger one applies
MarginLarge == 15
MarginSmall == 5
LargeZone == 100

Margin(Pixels) == IF Len(Pixels) < LargeZone THEN MarginSmall ELSE MarginLarge

\* the initial value of bestSq, int(^uint(0) >> 1): the largest int. The model
\* uses the largest integer of the model checker; every squared distance of
\* the zones modelled is far below either.
MaxInt == 2147483647

\* a zone pixel with at least one 4-neighbour outside the zone
IsBoundary(members, p) ==
    \E k \in 1..Len(Dirs) : Pt(p.X + Dirs[k].X, p.Y + Dirs[k].Y) \notin members

\* the first loop over the pixels: distance 0 and a place in the queue for the
\* boundary pixels, -1 (unvisited) for the others
DistInit(Pixels) ==
    LET members == SeqToSet(Pixels)
    IN [dist  |-> [p \in members |-> IF IsBoundary(members, p) THEN 0 ELSE -1],
        queue |-> SelectSeq(Pixels, LAMBDA p : IsBoundary(members, p))]

\* the neighbour loop giving the neighbours the distance of p itself (a mutant
\* of Relax)
RECURSIVE RelaxSameDistance(_, _, _, _, _)
RelaxSameDistance(dist, queue, p, nd, k) ==
    IF k > Len(Dirs) THEN [dist |-> dist, queue |-> queue]
    ELSE LET n == Pt(p.X + Dirs[k].X, p.Y + Dirs[k].Y)
         IN IF n \in DOMAIN dist /\ dist[n] = -1
              THEN RelaxSameDistance([dist EXCEPT ![n] = nd - 1],
                                     Append(queue, n), p, nd, k + 1)
              ELSE RelaxSameDistance(dist, queue, p, nd, k + 1)

\* the neighbour loop of the distance propagation for the popped pixel p
RECURSIVE Relax(_, _, _, _, _)
Relax(dist, queue, p, nd, k) ==
    IF k > Len(Dirs) THEN [dist |-> dist, queue |-> queue]
    ELSE LET n == Pt(p.X + Dirs[k].X, p.Y + Dirs[k].Y)
         IN IF n \in DOMAIN dist /\ dist[n] = -1
              THEN Relax([dist EXCEPT ![n] = nd], Append(queue, n), p, nd, k + 1)
              ELSE Relax(dist, queue, p, nd, k + 1)

SqDist(p, c) == (p.X - c.X) * (p.X - c.X) + (p.Y - c.Y) * (p.Y - c.Y)

\* the state of a call of InteriorPoint on a zone of these pixels
IPInit(Pixels) ==
    [pc |-> "call", Pixels |-> Pixels, centroid |-> Pt(0, 0), margin |-> 0,
     dist |-> <<>>, queue |-> <<>>, i |-> 0, bestSq |-> 0, best |-> Pt(0, 0),
     found |-> FALSE, bestEdgeDist |-> 0, point |-> Pt(0, 0), via |-> ""]

\* no pixels: return image.Point{}
IPEmpty ==
    /\ ip.pc = "call"
    /\ Len(ip.Pixels) = 0
    /\ ip' = [ip EXCEPT !.pc = "done", !.point = Pt(0, 0), !.via = "empty"]
    /\ UNCHANGED <<fz, rc, det, par, czc, wm, pl, te, dlab>>

\* the centroid, the member set, the margin, and the first loop over the
\* pixels, which fills dist and queues the boundary pixels
IPSetup ==
    /\ ip.pc = "call"
    /\ Len(ip.Pixels) # 0
    /\ LET s == DistInit(ip.Pixels)
       IN ip' = [ip EXCEPT !.pc = "bfs",
                           !.centroid = Centroid(ip.Pixels),
                           !.margin = Margin(ip.Pixels),
                           !.dist = s.dist,
                           !.queue = s.queue]
    /\ UNCHANGED <<fz, rc, det, par, czc, wm, pl, te, dlab>>

\* one iteration of the distance propagation loop
IPPropagate ==
    /\ ip.pc = "bfs"
    /\ Len(ip.queue) > 0
    /\ LET p == Head(ip.queue)
           r == Relax(ip.dist, Tail(ip.queue), p, ip.dist[p] + 1, 1)
       IN ip' = [ip EXCEPT !.dist = r.dist, !.queue = r.queue]
    /\ UNCHANGED <<fz, rc, det, par, czc, wm, pl, te, dlab>>

\* the centroid is a zone pixel at least margin deep
CentroidDeep ==
    ip.centroid \in DOMAIN ip.dist /\ ip.dist[ip.centroid] >= ip.margin

\* the propagation is over and the centroid is deep enough: return it
IPCentroid ==
    /\ ip.pc = "bfs"
    /\ Len(ip.queue) = 0
    /\ CentroidDeep
    /\ ip' = [ip EXCEPT !.pc = "done", !.point = ip.centroid, !.via = "centroid"]
    /\ UNCHANGED <<fz, rc, det, par, czc, wm, pl, te, dlab>>

\* the propagation is over and the centroid is not deep enough: start the
\* loop over the pixels with distance >= margin
IPNearStart ==
    /\ ip.pc = "bfs"
    /\ Len(ip.queue) = 0
    /\ ~CentroidDeep
    /\ ip' = [ip EXCEPT !.pc = "near", !.i = 1, !.bestSq = MaxInt,
                        !.best = Pt(0, 0), !.found = FALSE]
    /\ UNCHANGED <<fz, rc, det, par, czc, wm, pl, te, dlab>>

\* IPNearStep with sq <= bestSq: the last of the nearest wins (a mutant)
IPNearStepLastWins ==
    /\ ip.pc = "near"
    /\ ip.i <= Len(ip.Pixels)
    /\ LET p  == ip.Pixels[ip.i]
           sq == SqDist(p, ip.centroid)
       IN IF ip.dist[p] >= ip.margin /\ sq <= ip.bestSq
            THEN ip' = [ip EXCEPT !.i = ip.i + 1, !.bestSq = sq, !.best = p,
                                  !.found = TRUE]
            ELSE ip' = [ip EXCEPT !.i = ip.i + 1]
    /\ UNCHANGED <<fz, rc, det, par, czc, wm, pl, te, dlab>>

\* one iteration of the loop over the pixels with distance >= margin
IPNearStep ==
    /\ ip.pc = "near"
    /\ ip.i <= Len(ip.Pixels)
    /\ LET p  == ip.Pixels[ip.i]
           sq == SqDist(p, ip.centroid)
       IN IF ip.dist[p] >= ip.margin /\ sq < ip.bestSq
            THEN ip' = [ip EXCEPT !.i = ip.i + 1, !.bestSq = sq, !.best = p,
                                  !.found = TRUE]
            ELSE ip' = [ip EXCEPT !.i = ip.i + 1]
    /\ UNCHANGED <<fz, rc, det, par, czc, wm, pl, te, dlab>>

\* a pixel with distance >= margin was found: return the nearest
IPNearFound ==
    /\ ip.pc = "near"
    /\ ip.i > Len(ip.Pixels)
    /\ ip.found
    /\ ip' = [ip EXCEPT !.pc = "done", !.point = ip.best, !.via = "margin"]
    /\ UNCHANGED <<fz, rc, det, par, czc, wm, pl, te, dlab>>

\* IPDeepStart without the fallback: return best as it is (a mutant)
IPNoFallback ==
    /\ ip.pc = "near"
    /\ ip.i > Len(ip.Pixels)
    /\ ~ip.found
    /\ ip' = [ip EXCEPT !.pc = "done", !.point = ip.best, !.via = "margin"]
    /\ UNCHANGED <<fz, rc, det, par, czc, wm, pl, te, dlab>>

\* no pixel is margin deep: start the loop for the deepest pixel
IPDeepStart ==
    /\ ip.pc = "near"
    /\ ip.i > Len(ip.Pixels)
    /\ ~ip.found
    /\ ip' = [ip EXCEPT !.pc = "deep", !.i = 1, !.bestEdgeDist = -1,
                        !.bestSq = MaxInt]
    /\ UNCHANGED <<fz, rc, det, par, czc, wm, pl, te, dlab>>

\* IPDeepStep without the comparison of sq among the equally deep (a mutant)
IPDeepStepDepthOnly ==
    /\ ip.pc = "deep"
    /\ ip.i <= Len(ip.Pixels)
    /\ LET p  == ip.Pixels[ip.i]
           d  == ip.dist[p]
           sq == SqDist(p, ip.centroid)
       IN IF d > ip.bestEdgeDist
            THEN ip' = [ip EXCEPT !.i = ip.i + 1, !.bestEdgeDist = d,
                                  !.bestSq = sq, !.best = p]
            ELSE ip' = [ip EXCEPT !.i = ip.i + 1]
    /\ UNCHANGED <<fz, rc, det, par, czc, wm, pl, te, dlab>>

\* one iteration of the loop for the deepest pixel, the nearest to the
\* centroid among the equally deep
IPDeepStep ==
    /\ ip.pc = "deep"
    /\ ip.i <= Len(ip.Pixels)
    /\ LET p  == ip.Pixels[ip.i]
           d  == ip.dist[p]
           sq == SqDist(p, ip.centroid)
       IN IF d > ip.bestEdgeDist \/ (d = ip.bestEdgeDist /\ sq < ip.bestSq)
            THEN ip' = [ip EXCEPT !.i = ip.i + 1, !.bestEdgeDist = d,
                                  !.bestSq = sq, !.best = p]
            ELSE ip' = [ip EXCEPT !.i = ip.i + 1]
    /\ UNCHANGED <<fz, rc, det, par, czc, wm, pl, te, dlab>>

\* the loop for the deepest pixel is over: return best
IPDeepDone ==
    /\ ip.pc = "deep"
    /\ ip.i > Len(ip.Pixels)
    /\ ip' = [ip EXCEPT !.pc = "done", !.point = ip.best, !.via = "deepest"]
    /\ UNCHANGED <<fz, rc, det, par, czc, wm, pl, te, dlab>>

(***************************************************************************)
(* The zones given to InteriorPoint: every pixel set of a small grid, in   *)
(* row-major or in reverse order, at two places of the plane, and larger   *)
(* zones that are deep enough for the margins.                             *)
(***************************************************************************)
Min(S) == CHOOSE a \in S : \A b \in S : a <= b
Max(S) == CHOOSE a \in S : \A b \in S : a >= b

\* the pixels of S as a list in row-major order
RowMajor(S) ==
    IF S = {} THEN <<>>
    ELSE LET x0 == Min({p.X : p \in S})
             x1 == Max({p.X : p \in S})
             y0 == Min({p.Y : p \in S})
             y1 == Max({p.Y : p \in S})
             bw == x1 - x0 + 1
             box == [i \in 1..(bw * (y1 - y0 + 1)) |->
                       Pt(x0 + ((i - 1) % bw), y0 + ((i - 1) \div bw))]
         IN SelectSeq(box, LAMBDA p : p \in S)

Reverse(s) == [i \in 1..Len(s) |-> s[Len(s) + 1 - i]]

Translate(S, d) == {Pt(p.X + d.X, p.Y + d.Y) : p \in S}

Abs(a) == IF a >= 0 THEN a ELSE -a

Rect(x0, y0, w, h) == {Pt(x, y) : x \in x0..(x0 + w - 1), y \in y0..(y0 + h - 1)}

Diamond(c, r) ==
    {p \in Rect(c.X - r, c.Y - r, 2 * r + 1, 2 * r + 1) :
        Abs(p.X - c.X) + Abs(p.Y - c.Y) <= r}

\* where the small zones are placed
Offsets == {Pt(0, 0), Pt(-2, -1)}

SmallZones ==
    {Translate(S, d) : S \in SUBSET Rect(0, 0, MaxW, MaxH), d \in Offsets}

\* a diamond of depth 5, alone and with a one-pixel-wide tail that moves the
\* centroid out of it; rectangles of 100 and 99 pixels, too shallow for
\* their margins; a square of depth 15, alone and with a tail; two
\* overlapping diamonds with the centroid between their centres
DeepZones ==
    { Diamond(Pt(5, 5), 5),
      Diamond(Pt(5, 5), 5) \cup Rect(11, 5, 30, 1),
      Diamond(Pt(5, 5), 5) \cup Rect(5, 11, 1, 20),
      Rect(0, 0, 10, 10),
      Rect(0, 0, 11, 9),
      Rect(0, 0, 31, 31),
      Rect(0, 0, 31, 31) \cup Rect(31, 15, 50, 1),
      Diamond(Pt(5, 5), 5) \cup Diamond(Pt(5, 7), 5) }

ZoneInputs ==
    {RowMajor(S) : S \in SmallZones \cup DeepZones}
      \cup {Reverse(RowMajor(S)) : S \in SmallZones \cup DeepZones}

InitInterior ==
    /\ \E z \in ZoneInputs : ip = IPInit(z)
    /\ fz = Idle
    /\ rc = Idle
    /\ det = Idle
    /\ par = Idle
    /\ czc = Idle
    /\ wm = Idle
    /\ pl = Idle
    /\ te = Idle
    /\ dlab = Idle

NextInterior ==
    \/ IPEmpty
    \/ IPSetup
    \/ IPPropagate
    \/ IPCentroid
    \/ IPNearStart
    \/ IPNearStep
    \/ IPNearFound
    \/ IPDeepStart
    \/ IPDeepStep
    \/ IPDeepDone

SpecInterior == InitInterior /\ [][NextInterior]_vars

\* C4: InteriorPoint returns an element of the zone's pixel list for every
\* non-empty zone, and the zero point (0,0) for a zone without pixels.
C4_InteriorPointInZone ==
    ip.pc = "done" =>
      IF Len(ip.Pixels) = 0
        THEN ip.point = Pt(0, 0)
        ELSE ip.point \in SeqToSet(ip.Pixels)

\* C4 witness: a call on a concave zone whose centroid is not one of its
\* pixels has returned
C4_Witness ==
    /\ ip.pc = "done"
    /\ Len(ip.Pixels) >= 3
    /\ ip.centroid \notin SeqToSet(ip.Pixels)
    /\ ip.point \in SeqToSet(ip.Pixels)

(***************************************************************************)
(* package color. A colour is a record of four channels in 0..255.         *)
(*                                                                         *)
(* The CIELAB conversion is computed in float64 by the program; the model  *)
(* computes it in fixed point. The approximation keeps distances within    *)
(* about 0.5 CIELAB units of the program's, so the order of two distances  *)
(* is the program's whenever they differ by more than that.                *)
(***************************************************************************)
RGBA(r, g, b, a) == [R |-> r, G |-> g, B |-> b, A |-> a]

\* the zero value RGBA{}
ZeroColor == RGBA(0, 0, 0, 0)

\* srgbToLinear(i / 255.0) for i = 0..255, in units of 1/100000, rounded
SrgbLinear ==
    <<0, 30, 61, 91, 121, 152, 182, 212, 243, 273, 304, 335, 368, 402,
       439, 478, 518, 561, 605, 651, 700, 750, 802, 857, 913, 972, 1033,
       1096, 1161, 1229, 1298, 1370, 1444, 1521, 1600, 1681, 1764, 1850,
       1938, 2029, 2122, 2217, 2315, 2416, 2519, 2624, 2732, 2843, 2956,
       3071, 3190, 3310, 3434, 3560, 3689, 3820, 3955, 4092, 4231, 4374,
       4519, 4667, 4817, 4971, 5127, 5286, 5448, 5613, 5781, 5951, 6125,
       6301, 6480, 6663, 6848, 7036, 7227, 7421, 7619, 7819, 8022, 8228,
       8438, 8650, 8866, 9084, 9306, 9531, 9759, 9990, 10224, 10462,
       10702, 10946, 11193, 11444, 11697, 11954, 12214, 12477, 12744,
       13014, 13287, 13563, 13843, 14126, 14413, 14703, 14996, 15293,
       15593, 15896, 16203, 16513, 16827, 17144, 17465, 17789, 18116,
       18447, 18782, 19120, 19462, 19807, 20156, 20508, 20864, 21223,
       21586, 21953, 22323, 22697, 23074, 23455, 23840, 24228, 24620,
       25016, 25415, 25818, 26225, 26636, 27050, 27468, 27889, 28315,
       28744, 29177, 29614, 30054, 30499, 30947, 31399, 31855, 32314,
       32778, 33245, 33716, 34191, 34670, 35153, 35640, 36131, 36625,
       37124, 37626, 38133, 38643, 39157, 39676, 40198, 40724, 41254,
       41789, 42327, 42869, 43415, 43966, 44520, 45079, 45641, 46208,
       46778, 47353, 47932, 48515, 49102, 49693, 50289, 50888, 51492,
       52100, 52712, 53328, 53948, 54572, 55201, 55834, 56471, 57112,
       57758, 58408, 59062, 59720, 60383, 61050, 61721, 62396, 63076,
       63760, 64448, 65141, 65837, 66539, 67244, 67954, 68669, 69387,
       70110, 70838, 71569, 72306, 73046, 73791, 74540, 75294, 76052,
       76815, 77582, 78354, 79130, 79910, 80695, 81485, 82279, 83077,
       83880, 84687, 85499, 86316, 87137, 87962, 88792, 89627, 90466,
       91310, 92158, 93011, 93869, 94731, 95597, 96469, 97345, 98225,
       99110, 100000>>

srgbToLinear(v) == SrgbLinear[v + 1]

\* the largest n in lo..hi-1 with n^3 <= t
RECURSIVE CbrtSearch(_, _, _)
CbrtSearch(t, lo, hi) ==
    IF hi - lo <= 1 THEN lo
    ELSE LET m == (lo + hi) \div 2
         IN IF m * m * m <= t THEN CbrtSearch(t, m, hi) ELSE CbrtSearch(t, lo, m)

\* labF(t) in units of 1/1000, for t in units of 1/10^9: the cube root above
\* delta^3 = 216/24389, the line t / (3 delta^2) + 4/29 below
labF(t) ==
    IF t > 8856452 THEN CbrtSearch(t, 0, 1001)
    ELSE (((t \div 1000) * 841) \div 108000) + 138

\* ToLAB with bLin taken from the green channel (a mutant of ToLAB)
ToLABGreenForBlue(c) ==
    LET rLin == srgbToLinear(c.R)
        gLin == srgbToLinear(c.G)
        bLin == srgbToLinear(c.G)
        labFx == labF(4339 * rLin + 3762 * gLin + 1898 * bLin)
        labFy == labF(2127 * rLin + 7152 * gLin + 722 * bLin)
        labFz == labF(178 * rLin + 1095 * gLin + 8728 * bLin)
    IN [L |-> (116 * labFy - 16000) \div 10,
        A |-> 50 * (labFx - labFy),
        B |-> 20 * (labFy - labFz)]

\* RGBA.ToLAB, in units of 1/100. The rows of the XYZ matrix are divided by
\* the D65 reference white (0.95047, 1, 1.08883) and are in units of 1/10000.
ToLAB(c) ==
    LET rLin == srgbToLinear(c.R)
        gLin == srgbToLinear(c.G)
        bLin == srgbToLinear(c.B)
        labFx == labF(4339 * rLin + 3762 * gLin + 1898 * bLin)
        labFy == labF(2127 * rLin + 7152 * gLin + 722 * bLin)
        labFz == labF(178 * rLin + 1095 * gLin + 8728 * bLin)
    IN [L |-> (116 * labFy - 16000) \div 10,
        A |-> 50 * (labFx - labFy),
        B |-> 20 * (labFy - labFz)]

\* DistanceLAB: the square of the Euclidean distance of the two colours in
\* CIELAB (units of 1/10000). The program takes the square root, which keeps
\* the order, the equality and the zero of the distances it compares.
DistanceLAB(a, b) ==
    LET la == ToLAB(a)
        lb == ToLAB(b)
        dl == la.L - lb.L
        da == la.A - lb.A
        db == la.B - lb.B
    IN dl * dl + da * da + db * db

\* a / b with the fraction dropped (a mutant of RoundDiv)
RoundDivTruncated(a, b) == a \div b

\* math.Round of a / b for a >= 0, b > 0: halves go up
RoundDiv(a, b) == (2 * a + b) \div (2 * b)

\* the weight of colour i, 0 where weights is nil (a mutant of WeightAt)
WeightAtNilIsZero(weights, i) == IF Len(weights) = 0 THEN 0 ELSE weights[i]

\* the weight of colour i: 1 where weights is nil (the empty list here)
WeightAt(weights, i) == IF Len(weights) = 0 THEN 1 ELSE weights[i]

RECURSIVE WeightedSum(_, _, _, _)
WeightedSum(colors, weights, ch, i) ==
    IF i > Len(colors) THEN 0
    ELSE colors[i][ch] * WeightAt(weights, i) + WeightedSum(colors, weights, ch, i + 1)

RECURSIVE TotalWeight(_, _, _)
TotalWeight(colors, weights, i) ==
    IF i > Len(colors) THEN 0
    ELSE WeightAt(weights, i) + TotalWeight(colors, weights, i + 1)

\* color.WeightedMean; weights = <<>> stands for nil
WeightedMean(colors, weights) ==
    IF Len(colors) = 0 THEN ZeroColor
    ELSE LET totalW == TotalWeight(colors, weights, 1)
         IN IF totalW = 0 THEN ZeroColor
            ELSE [ch \in {"R", "G", "B", "A"} |->
                    RoundDiv(WeightedSum(colors, weights, ch, 1), totalW) % 256]

(***************************************************************************)
(* aggregation.ReduceColors. Slices are sequences; zone ids and palette    *)
(* entry indices are 0-based as in the program, so zone z is               *)
(* zoneColors[z + 1] and entry e is Entries[e + 1].                        *)
(***************************************************************************)
\* largest number of zone colours given to ReduceColors
MaxZones == 4

\* the initial value of bestDist, math.MaxFloat64: above every distance. The
\* model uses the largest integer of the model checker.
MaxFloat64 == 2147483647

\* equality of the ignoring-alpha kind (a mutant of SameColor)
SameColorRGB(a, b) == a.R = b.R /\ a.G = b.G /\ a.B = b.B

\* a groupIndex map that never finds a colour (a mutant of SameColor)
SameColorNever(a, b) == FALSE

\* equality of two colours as keys of the groupIndex map
SameColor(a, b) == a = b

\* the initial grouping loop from zone position i on
RECURSIVE GroupLoop(_, _, _)
GroupLoop(zoneColors, i, groups) ==
    IF i > Len(zoneColors) THEN groups
    ELSE LET c == zoneColors[i]
             known == {k \in 1..Len(groups) : SameColor(groups[k].color, c)}
         IN IF known # {}
              THEN LET idx == Min(known)
                   IN GroupLoop(zoneColors, i + 1,
                        [groups EXCEPT ![idx].zoneIDs = Append(@, i - 1),
                                       ![idx].weights = Append(@, 1)])
              ELSE GroupLoop(zoneColors, i + 1,
                     Append(groups, [color |-> c, zoneIDs |-> <<i - 1>>,
                                     weights |-> <<1>>]))

GroupZones(zoneColors) == GroupLoop(zoneColors, 1, <<>>)

\* the merge loop's condition stopping one group early (a mutant of MergeCond)
MergeCondStopsEarly(groups, maxColors) == maxColors > 0 /\ Len(groups) > maxColors + 1

\* the merge loop's condition
MergeCond(groups, maxColors) == maxColors > 0 /\ Len(groups) > maxColors

\* the search with d <= bestDist: the last of the closest pairs wins (a
\* mutant of PairLoop)
RECURSIVE PairLoopLastWins(_, _, _, _)
PairLoopLastWins(groups, i, j, b) ==
    IF i >= Len(groups) THEN b
    ELSE IF j >= Len(groups) THEN PairLoopLastWins(groups, i + 1, i + 2, b)
    ELSE LET d == DistanceLAB(groups[i + 1].color, groups[j + 1].color)
         IN IF d <= b.bestDist
              THEN PairLoopLastWins(groups, i, j + 1,
                                    [bestDist |-> d, bestI |-> i, bestJ |-> j])
              ELSE PairLoopLastWins(groups, i, j + 1, b)

\* the search for the two closest groups: the loops over i < j from (i, j) on
RECURSIVE PairLoop(_, _, _, _)
PairLoop(groups, i, j, b) ==
    IF i >= Len(groups) THEN b
    ELSE IF j >= Len(groups) THEN PairLoop(groups, i + 1, i + 2, b)
    ELSE LET d == DistanceLAB(groups[i + 1].color, groups[j + 1].color)
         IN IF d < b.bestDist
              THEN PairLoop(groups, i, j + 1, [bestDist |-> d, bestI |-> i, bestJ |-> j])
              ELSE PairLoop(groups, i, j + 1, b)

ClosestPair(groups) ==
    PairLoop(groups, 0, 1, [bestDist |-> MaxFloat64, bestI |-> 0, bestJ |-> 1])

\* append(s[:j], s[j+1:]...)
RemoveAt(s, j) == [k \in 1..(Len(s) - 1) |-> IF k <= j THEN s[k] ELSE s[k + 1]]

\* a merge that forgets the zones of bestJ (a mutant of MergeGroups)
MergeGroupsForgetsZones(zoneColors, groups) ==
    LET b == ClosestPair(groups)
        mergedZones   == groups[b.bestI + 1].zoneIDs
        mergedWeights == groups[b.bestI + 1].weights
        colors  == [k \in 1..Len(mergedZones) |-> zoneColors[mergedZones[k] + 1]]
        weights == [k \in 1..Len(mergedZones) |-> mergedWeights[k]]
        merged  == [color |-> WeightedMean(colors, weights),
                    zoneIDs |-> mergedZones, weights |-> mergedWeights]
    IN RemoveAt([groups EXCEPT ![b.bestI + 1] = merged], b.bestJ)

\* one iteration of the merge loop: bestJ merged into bestI, bestJ removed
MergeGroups(zoneColors, groups) ==
    LET b == ClosestPair(groups)
        mergedZones   == groups[b.bestI + 1].zoneIDs \o groups[b.bestJ + 1].zoneIDs
        mergedWeights == groups[b.bestI + 1].weights \o groups[b.bestJ + 1].weights
        colors  == [k \in 1..Len(mergedZones) |-> zoneColors[mergedZones[k] + 1]]
        weights == [k \in 1..Len(mergedZones) |-> mergedWeights[k]]
        merged  == [color |-> WeightedMean(colors, weights),
                    zoneIDs |-> mergedZones, weights |-> mergedWeights]
    IN RemoveAt([groups EXCEPT ![b.bestI + 1] = merged], b.bestJ)

\* the zone map loop from group position gi on
RECURSIVE ZoneMapLoop(_, _, _)
ZoneMapLoop(zm, groups, gi) ==
    IF gi > Len(groups) THEN zm
    ELSE ZoneMapLoop([k \in 1..Len(zm) |->
                        IF (k - 1) \in SeqToSet(groups[gi].zoneIDs)
                          THEN gi - 1 ELSE zm[k]],
                     groups, gi + 1)

\* the result with the entry's number stored in the zone map (a mutant)
BuildResultNumberInMap(groups, n) ==
    [Entries |-> [i \in 1..Len(groups) |->
                    [Number |-> i, Color |-> groups[i].color]],
     ZoneMap |-> [k \in 1..n |-> ZoneMapLoop([z \in 1..n |-> 0], groups, 1)[k] + 1]]

\* the result with 0-based numbers (a mutant)
BuildResultZeroBased(groups, n) ==
    [Entries |-> [i \in 1..Len(groups) |->
                    [Number |-> i - 1, Color |-> groups[i].color]],
     ZoneMap |-> ZoneMapLoop([k \in 1..n |-> 0], groups, 1)]

\* the ColorMap built from the surviving groups (group position i is the
\* program's index i - 1, so its number i is the program's index + 1)
BuildResult(groups, n) ==
    [Entries |-> [i \in 1..Len(groups) |->
                    [Number |-> i, Color |-> groups[i].color]],
     ZoneMap |-> ZoneMapLoop([k \in 1..n |-> 0], groups, 1)]

\* no zone colours: return &ColorMap{}
ReduceEmpty ==
    /\ rc.pc = "start"
    /\ Len(rc.zoneColors) = 0
    /\ rc' = [rc EXCEPT !.pc = "done", !.cm = [Entries |-> <<>>, ZoneMap |-> <<>>]]
    /\ UNCHANGED <<fz, ip, det, par, czc, wm, pl, te, dlab>>

\* the initial grouping of the zones by exact colour
ReduceGroup ==
    /\ rc.pc = "start"
    /\ Len(rc.zoneColors) # 0
    /\ rc' = [rc EXCEPT !.pc = "merge", !.groups = GroupZones(rc.zoneColors)]
    /\ UNCHANGED <<fz, ip, det, par, czc, wm, pl, te, dlab>>

\* one iteration of the merge loop
ReduceMerge ==
    /\ rc.pc = "merge"
    /\ MergeCond(rc.groups, rc.maxColors)
    /\ rc' = [rc EXCEPT !.groups = MergeGroups(rc.zoneColors, rc.groups),
                        !.iters = rc.iters + 1]
    /\ UNCHANGED <<fz, ip, det, par, czc, wm, pl, te, dlab>>

\* the merge loop ends: build and return the result
ReduceFinish ==
    /\ rc.pc = "merge"
    /\ ~MergeCond(rc.groups, rc.maxColors)
    /\ rc' = [rc EXCEPT !.pc = "done",
                        !.cm = BuildResult(rc.groups, Len(rc.zoneColors))]
    /\ UNCHANGED <<fz, ip, det, par, czc, wm, pl, te, dlab>>

\* the colours of the zones: two near reds, and an opaque and a fully
\* transparent black, which differ in alpha only
Black       == RGBA(0, 0, 0, 255)
Transparent == RGBA(0, 0, 0, 0)
Red      == RGBA(255, 0, 0, 255)
NearRed  == RGBA(250, 0, 0, 255)
Blue     == RGBA(0, 0, 255, 255)
NearBlue == RGBA(0, 0, 250, 255)
Green    == RGBA(0, 255, 0, 255)

Palette == {Red, NearRed, Black, Transparent}

\* black of half alpha: as far from every colour as the other two blacks
HalfBlack == RGBA(0, 0, 0, 128)

\* the inputs of the repository's tests, and lists where several pairs of
\* groups are equally far apart
Scenarios ==
    { <<Red, NearRed, Blue, NearBlue, Green>>,
      <<RGBA(100, 0, 0, 255), RGBA(0, 100, 0, 255), RGBA(0, 0, 100, 255)>>,
      <<Red, Green, Blue>>,
      <<Black, Transparent, HalfBlack>>,
      <<Red, Black, HalfBlack, Transparent, NearRed>>,
      <<Red, Red, Blue, Red>> }

ZoneColorInputs == UNION {[1..k -> Palette] : k \in 0..MaxZones} \cup Scenarios

InitReduce ==
    /\ \E zc \in ZoneColorInputs, m \in 0..(MaxZones + 1) :
         rc = [pc |-> "start", zoneColors |-> zc, maxColors |-> m,
               groups |-> <<>>, iters |-> 0,
               cm |-> [Entries |-> <<>>, ZoneMap |-> <<>>]]
    /\ fz = Idle
    /\ ip = Idle
    /\ det = Idle
    /\ par = Idle
    /\ czc = Idle
    /\ wm = Idle
    /\ pl = Idle
    /\ te = Idle
    /\ dlab = Idle

NextReduce ==
    \/ ReduceEmpty
    \/ ReduceGroup
    \/ ReduceMerge
    \/ ReduceFinish

SpecReduce == InitReduce /\ [][NextReduce]_vars

(***************************************************************************)
(* Properties of the ColorMap ReduceColors returns.                        *)
(***************************************************************************)
RCDone == rc.pc = "done"

\* the number of zones and of distinct zone colours given
RCZones == Len(rc.zoneColors)
RCDistinct == Cardinality(SeqToSet(rc.zoneColors))

\* C5: at most maxColors entries when maxColors > 0 and there are more zones
\* than maxColors; otherwise as many entries as distinct input colours; with
\* maxColors = 1 and a non-empty input every zone maps to entry index 0.
C5_PaletteSize ==
    RCDone =>
      /\ (rc.maxColors > 0 /\ RCZones > rc.maxColors)
           => Len(rc.cm.Entries) <= rc.maxColors
      /\ ~(rc.maxColors > 0 /\ RCZones > rc.maxColors)
           => Len(rc.cm.Entries) = RCDistinct
      /\ (rc.maxColors = 1 /\ RCZones > 0)
           => \A k \in 1..Len(rc.cm.ZoneMap) : rc.cm.ZoneMap[k] = 0

\* C5 witness: a reduction that merged twice to come down to maxColors
C5_Witness ==
    /\ RCDone
    /\ rc.maxColors > 0
    /\ RCZones > rc.maxColors
    /\ rc.iters >= 2
    /\ Len(rc.cm.Entries) = rc.maxColors

\* C6: with maxColors = 0 there is exactly one entry per distinct input
\* colour, every zone's entry has the zone's input colour, and two zones share
\* an entry exactly when their input colours are equal.
C6_NoReductionIsIdentity ==
    (RCDone /\ rc.maxColors = 0) =>
      /\ Len(rc.cm.Entries) = RCDistinct
      /\ {rc.cm.Entries[i].Color : i \in 1..Len(rc.cm.Entries)}
           = SeqToSet(rc.zoneColors)
      /\ Len(rc.cm.ZoneMap) = RCZones
      /\ \A a \in 1..RCZones :
           /\ rc.cm.ZoneMap[a] \in 0..(Len(rc.cm.Entries) - 1)
           /\ rc.cm.Entries[rc.cm.ZoneMap[a] + 1].Color = rc.zoneColors[a]
           /\ \A b \in 1..RCZones :
                (rc.cm.ZoneMap[a] = rc.cm.ZoneMap[b])
                  <=> (rc.zoneColors[a] = rc.zoneColors[b])

\* C6 witness: maxColors = 0 has returned for zones with repeated colours and
\* with two colours that differ in alpha only
C6_Witness ==
    /\ RCDone
    /\ rc.maxColors = 0
    /\ RCDistinct < RCZones
    /\ \E a, b \in 1..RCZones :
         rc.zoneColors[a] = Black /\ rc.zoneColors[b] = Transparent

\* C7: ZoneMap has one element per input zone, each a valid index into
\* Entries, and every entry index is the ZoneMap value of some zone.
C7_ZoneMapTotalAndOnto ==
    RCDone =>
      /\ Len(rc.cm.ZoneMap) = RCZones
      /\ \A k \in 1..Len(rc.cm.ZoneMap) :
           rc.cm.ZoneMap[k] \in 0..(Len(rc.cm.Entries) - 1)
      /\ \A e \in 0..(Len(rc.cm.Entries) - 1) :
           \E k \in 1..Len(rc.cm.ZoneMap) : rc.cm.ZoneMap[k] = e

\* C7 witness: a result of several entries after a merge
C7_Witness ==
    /\ RCDone
    /\ rc.iters >= 1
    /\ Len(rc.cm.Entries) >= 2
    /\ RCZones > Len(rc.cm.Entries)

\* C8: the entries are numbered 1..n in the order of the surviving groups:
\* the entry at the program's index i has number i + 1 and the colour of the
\* group at that index.
C8_NumbersSequential ==
    RCDone =>
      /\ \A i \in 0..(Len(rc.cm.Entries) - 1) :
           /\ rc.cm.Entries[i + 1].Number = i + 1
           /\ RCZones > 0 => rc.cm.Entries[i + 1].Color = rc.groups[i + 1].color
      /\ {rc.cm.Entries[i].Number : i \in 1..Len(rc.cm.Entries)}
           = 1..Len(rc.cm.Entries)
      /\ RCZones > 0 => Len(rc.cm.Entries) = Len(rc.groups)

\* C8 witness: three numbered entries after a merge
C8_Witness ==
    /\ RCDone
    /\ rc.iters >= 1
    /\ Len(rc.cm.Entries) = 3
    /\ rc.cm.Entries[3].Number = 3

\* the repository's test TestReduceColors_MergeToMaxColors
ScenarioMergeToMaxColors ==
    (RCDone /\ rc.zoneColors = <<Red, NearRed, Blue, NearBlue, Green>>
            /\ rc.maxColors = 3) =>
      /\ Len(rc.cm.Entries) = 3
      /\ rc.cm.ZoneMap[1] = rc.cm.ZoneMap[2]
      /\ rc.cm.ZoneMap[3] = rc.cm.ZoneMap[4]

(***************************************************************************)
(* package detection: parallelRows and ColorDelimiter.Detect. An image is  *)
(* a record of its width, its height and its pixels' colours in row-major  *)
(* order from index 0; the tolerance is in tenths of a percent.            *)
(***************************************************************************)
\* largest side of the images given to Detect
DetSide == 5

NumWorkers == 8

\* the start of the band loop of parallelRows, from this worker on: the
\* bands <<startY, endY>> of the workers started
RECURSIVE BandLoop(_, _, _, _)
BandLoop(h, rowsPerWorker, worker, bands) ==
    IF worker >= NumWorkers THEN bands
    ELSE LET startY == worker * rowsPerWorker
             endY   == IF startY + rowsPerWorker > h THEN h
                       ELSE startY + rowsPerWorker
         IN IF startY >= h THEN bands
            ELSE BandLoop(h, rowsPerWorker, worker + 1,
                          Append(bands, [sy |-> startY, ey |-> endY]))

\* the row bands parallelRows hands to its workers
Bands(h) == BandLoop(h, (h + NumWorkers - 1) \div NumWorkers, 0, <<>>)

\* the rows some worker of parallelRows runs fn on
BandRows(h) ==
    LET b == Bands(h) IN UNION {b[k].sy..(b[k].ey - 1) : k \in 1..Len(b)}

\* color.FromStdColor of a color.RGBA pixel: RGBA() widens each channel to 16
\* bits (c | c << 8) and FromStdColor keeps the high byte
FromStdColor(c) ==
    [ch \in {"R", "G", "B", "A"} |-> ((c[ch] * 257) \div 256) % 256]

\* the radius of the window
Radius == 2

\* the initial value of minR, minG, minB
MinStart == 255

\* the window with a radius of 1 (a mutant of Window)
WindowNarrow(x, y, w, h) ==
    LET y0 == IF y - 1 < 0 THEN 0 ELSE y - 1
        y1 == IF y + 1 >= h THEN h - 1 ELSE y + 1
        x0 == IF x - 1 < 0 THEN 0 ELSE x - 1
        x1 == IF x + 1 >= w THEN w - 1 ELSE x + 1
    IN {Pt(nx, ny) : nx \in x0..x1, ny \in y0..y1}

\* the window of pixel (x, y), the bounds clamped to the image as the code does
Window(x, y, w, h) ==
    LET y0 == IF y - Radius < 0 THEN 0 ELSE y - Radius
        y1 == IF y + Radius >= h THEN h - 1 ELSE y + Radius
        x0 == IF x - Radius < 0 THEN 0 ELSE x - Radius
        x1 == IF x + Radius >= w THEN w - 1 ELSE x + Radius
    IN {Pt(nx, ny) : nx \in x0..x1, ny \in y0..y1}

\* the range with min starting at 0, as max does (a mutant of ChannelRange)
ChannelRangeMinZero(buf, win, w, ch) ==
    LET vals == {buf[p.Y * w + p.X][ch] : p \in win}
    IN Max(vals \cup {0}) - Min(vals \cup {0})

\* max - min of one channel over the window, min starting at 255, max at 0
ChannelRange(buf, win, w, ch) ==
    LET vals == {buf[p.Y * w + p.X][ch] : p \in win}
    IN Max(vals \cup {0}) - Min(vals \cup {MinStart})

\* maxDiff of pixel (x, y)
MaxDiff(buf, x, y, w, h) ==
    LET win == Window(x, y, w, h)
        dr == ChannelRange(buf, win, w, "R")
        dg == ChannelRange(buf, win, w, "G")
        db == ChannelRange(buf, win, w, "B")
        m1 == IF dg > dr THEN dg ELSE dr
    IN IF db > m1 THEN db ELSE m1

\* int(TolerancePct / 100.0 * 255.0) for a tolerance of tol10 tenths of a
\* percent
Threshold(tol10) == (tol10 * 255) \div 1000

\* ColorDelimiter.Detect: the bitmap once the three parallelRows calls have
\* returned. Cells of rows no worker ran on keep their zero value.
ColorDetect(img, tol10) ==
    LET w == img.w
        h == img.h
        rows == BandRows(h)
        buf == [i \in 0..(w * h - 1) |->
                  IF (i \div w) \in rows THEN FromStdColor(img.data[i])
                  ELSE ZeroColor]
        threshold == Threshold(tol10)
    IN [i \in 0..(w * h - 1) |->
          /\ (i \div w) \in rows
          /\ MaxDiff(buf, i % w, i \div w, w, h) > threshold]

\* the colours of the images
Gray100 == RGBA(100, 100, 100, 255)
SpotColors == {RGBA(151, 100, 100, 255), RGBA(100, 152, 100, 200),
               RGBA(100, 100, 255, 255), RGBA(49, 100, 101, 255)}

\* one row or one column of pixels of any of three colours
Strips ==
    LET cols == {Gray100, RGBA(151, 100, 100, 255), RGBA(49, 100, 101, 255)}
    IN UNION {
         {[w |-> n, h |-> 1, data |-> d] : d \in [0..(n - 1) -> cols]} \cup
         {[w |-> 1, h |-> n, data |-> d] : d \in [0..(n - 1) -> cols]}
         : n \in 1..DetSide}

\* images of one colour, and images of one colour but for one pixel
Spotted ==
    UNION {
      UNION {
        {[w |-> w, h |-> h, data |-> [i \in 0..(w * h - 1) |-> base]]} \cup
        {[w |-> w, h |-> h,
          data |-> [i \in 0..(w * h - 1) |-> IF i = s THEN c ELSE base]] :
            s \in 0..(w * h - 1), c \in SpotColors}
        : base \in {Gray100, Black}}
      : w \in 0..DetSide, h \in 0..DetSide}

\* one-pixel-wide images of more rows than workers: bands of several rows
Tall ==
    UNION {
      {[w |-> 1, h |-> h, data |-> [i \in 0..(h - 1) |-> Gray100]]} \cup
      {[w |-> 1, h |-> h,
        data |-> [i \in 0..(h - 1) |-> IF i = s THEN c ELSE Gray100]] :
          s \in 0..(h - 1), c \in SpotColors}
      : h \in {9, 16, 17}}

ImageInputs == Strips \cup Spotted \cup Tall

\* tolerances of 0, 0.1, 10, 20 and 100 percent
Tolerances == {0, 1, 100, 200, 1000}

InitDetect ==
    /\ \E img \in ImageInputs, t \in Tolerances :
         det = [pc |-> "call", img |-> img, tol10 |-> t,
                IsDelimiter |-> <<>>]
    /\ fz = Idle
    /\ ip = Idle
    /\ rc = Idle
    /\ par = Idle
    /\ czc = Idle
    /\ wm = Idle
    /\ pl = Idle
    /\ te = Idle
    /\ dlab = Idle

\* a call of (&ColorDelimiter{TolerancePct: t}).Detect(img)
ColorDetectCall ==
    /\ det.pc = "call"
    /\ det' = [det EXCEPT !.pc = "done",
                          !.IsDelimiter = ColorDetect(det.img, det.tol10)]
    /\ UNCHANGED <<fz, ip, rc, par, czc, wm, pl, te, dlab>>

NextDetect == ColorDetectCall

SpecDetect == InitDetect /\ [][NextDetect]_vars

(***************************************************************************)
(* Properties of the bitmap ColorDelimiter.Detect returns.                 *)
(***************************************************************************)
DetDone == det.pc = "done"

DetPixels == {Pt(x, y) : x \in 0..(det.img.w - 1), y \in 0..(det.img.h - 1)}

DetIndex(p) == p.Y * det.img.w + p.X

\* the in-bounds pixels of the 5x5 square centred on p
Square5(p) == {q \in DetPixels : Abs(q.X - p.X) <= 2 /\ Abs(q.Y - p.Y) <= 2}

\* max - min of channel ch of the image over the pixel set S
RangeOver(S, ch) ==
    Max({det.img.data[DetIndex(q)][ch] : q \in S})
      - Min({det.img.data[DetIndex(q)][ch] : q \in S})

\* the largest of the three channel ranges over S
LargestRange(S) == Max({RangeOver(S, "R"), RangeOver(S, "G"), RangeOver(S, "B")})

\* C9: under the colour strategy a pixel is boundary exactly when the largest
\* of the R, G and B ranges over the in-bounds part of the 5x5 window centred
\* on it exceeds (tolerancePct / 100) x 255 (tolerance in tenths of a percent:
\* 1000 x range > tol10 x 255), and the window never leaves the image.
C9_ColorBoundaryIffRangeExceeds ==
    DetDone =>
      /\ DOMAIN det.IsDelimiter = 0..(det.img.w * det.img.h - 1)
      /\ \A p \in DetPixels :
           /\ Window(p.X, p.Y, det.img.w, det.img.h) \subseteq DetPixels
           /\ det.IsDelimiter[DetIndex(p)]
                <=> (1000 * LargestRange(Square5(p)) > det.tol10 * 255)

\* C9 witness: a finished call on an image at least 5 wide and high where a
\* pixel next to the one odd pixel is boundary, a pixel two steps away
\* diagonally is boundary and a pixel three steps away is not
C9_Witness ==
    /\ DetDone
    /\ det.img.w >= 5 /\ det.img.h >= 5
    /\ \E p, q, r \in DetPixels :
         /\ det.img.data[DetIndex(p)] # det.img.data[DetIndex(q)]
         /\ q.X = p.X + 2 /\ q.Y = p.Y + 2
         /\ r.X = p.X + 3 /\ r.Y = p.Y
         /\ det.IsDelimiter[DetIndex(q)]
         /\ det.IsDelimiter[DetIndex(p)]
         /\ ~det.IsDelimiter[DetIndex(r)]

\* the image is of one colour
DetUniform ==
    \A p, q \in DetPixels : det.img.data[DetIndex(p)] = det.img.data[DetIndex(q)]

\* C10: on an image whose pixels all have the same colour the colour strategy
\* with a positive tolerance marks no pixel as boundary.
C10_UniformImageNoBoundary ==
    (DetDone /\ DetUniform /\ det.tol10 > 0) =>
      \A p \in DetPixels : ~det.IsDelimiter[DetIndex(p)]

\* C10 witness: a finished call on a uniform gray image of 17 rows, with the
\* smallest positive tolerance
C10_Witness ==
    /\ DetDone
    /\ DetUniform
    /\ det.img.h = 17
    /\ det.img.data[0] = Gray100
    /\ det.tol10 = 1
    /\ \A p \in DetPixels : ~det.IsDelimiter[DetIndex(p)]

(***************************************************************************)
(* BorderDelimiter.Detect and ColorDelimiter.Detect with the goroutines of *)
(* parallelRows: the spawn loop runs one iteration per step, a worker runs *)
(* one row of its band per step. The tolerance is in whole percent.        *)
(***************************************************************************)
\* largest width and height of the images given to the two Detect methods
ParW == 2
ParH == 4

\* color.MaxRGBDistance squared: 255*255*3
MaxRGBDistance2 == 195075

\* the square of color.DistanceRGB
DistanceRGB2(a, b) ==
    (a.R - b.R) * (a.R - b.R) + (a.G - b.G) * (a.G - b.G)
      + (a.B - b.B) * (a.B - b.B)

\* the test with dist < threshold (a mutant of WithinTolerance)
WithinToleranceStrict(px, ref, tol) ==
    10000 * DistanceRGB2(px, ref) < tol * tol * MaxRGBDistance2

\* the test with dist >= threshold (a mutant of WithinTolerance)
WithinToleranceInverted(px, ref, tol) ==
    10000 * DistanceRGB2(px, ref) >= tol * tol * MaxRGBDistance2

\* dist <= threshold for threshold = (tol / 100.0) * MaxRGBDistance, both
\* sides squared and scaled by 100 * 100
WithinTolerance(px, ref, tol) ==
    10000 * DistanceRGB2(px, ref) <= tol * tol * MaxRGBDistance2

\* rowsPerWorker rounded down (a mutant of RowsPerWorker)
RowsPerWorkerFloor(h) == h \div NumWorkers

\* rowsPerWorker of parallelRows
RowsPerWorker(h) == (h + NumWorkers - 1) \div NumWorkers

\* the state of a call of Detect on img: strategy "border" with the colour
\* ref, or strategy "color". written is the set of cells of buf assigned so
\* far.
ParInit(strategy, img, ref, tol) ==
    [pc |-> "start", strategy |-> strategy, img |-> img, ref |-> ref,
     tol |-> tol, phase |-> "", buf |-> <<>>, written |-> {},
     IsDelimiter |-> <<>>, worker |-> 0, rowsPerWorker |-> 0, wg |-> 0,
     ws |-> <<>>]

\* the cells of row y
RowCells(img, y) == {i \in 0..(img.w * img.h - 1) : i \div img.w = y}

\* BorderDelimiter.Detect up to its call of parallelRows
BorderStart ==
    /\ par.pc = "start"
    /\ par.strategy = "border"
    /\ par' = [par EXCEPT !.pc = "spawn", !.phase = "filter",
                 !.IsDelimiter = [i \in 0..(par.img.w * par.img.h - 1) |-> FALSE],
                 !.worker = 0, !.rowsPerWorker = RowsPerWorker(par.img.h),
                 !.wg = 0, !.ws = <<>>]
    /\ UNCHANGED <<fz, ip, rc, det, czc, wm, pl, te, dlab>>

\* ColorDelimiter.Detect up to its first call of parallelRows
ColorStart ==
    /\ par.pc = "start"
    /\ par.strategy = "color"
    /\ par' = [par EXCEPT !.pc = "spawn", !.phase = "buf",
                 !.buf = [i \in 0..(par.img.w * par.img.h - 1) |-> ZeroColor],
                 !.worker = 0, !.rowsPerWorker = RowsPerWorker(par.img.h),
                 !.wg = 0, !.ws = <<>>]
    /\ UNCHANGED <<fz, ip, rc, det, czc, wm, pl, te, dlab>>

\* startY of the iteration of the spawn loop about to run
StartY == par.worker * par.rowsPerWorker

\* one iteration of the spawn loop that starts a goroutine
ParSpawn ==
    /\ par.pc = "spawn"
    /\ par.worker < NumWorkers
    /\ StartY < par.img.h
    /\ LET endY == IF StartY + par.rowsPerWorker > par.img.h THEN par.img.h
                   ELSE StartY + par.rowsPerWorker
       IN par' = [par EXCEPT !.worker = par.worker + 1,
                    !.wg = par.wg + 1,
                    !.ws = Append(par.ws, [sy |-> StartY, ey |-> endY,
                                           y |-> StartY, done |-> FALSE])]
    /\ UNCHANGED <<fz, ip, rc, det, czc, wm, pl, te, dlab>>

\* the spawn loop ends, by its condition or by its break
ParSpawnEnd ==
    /\ par.pc = "spawn"
    /\ (par.worker >= NumWorkers \/ StartY >= par.img.h)
    /\ par' = [par EXCEPT !.pc = "wait"]
    /\ UNCHANGED <<fz, ip, rc, det, czc, wm, pl, te, dlab>>

\* the bitmap after the border closure has run row y
BorderRow(y) ==
    [i \in DOMAIN par.IsDelimiter |->
       IF i \div par.img.w = y
            /\ WithinTolerance(FromStdColor(par.img.data[i]), par.ref, par.tol)
         THEN TRUE
         ELSE par.IsDelimiter[i]]

\* buf after the first closure of ColorDelimiter.Detect has run row y
BufRow(y) ==
    [i \in DOMAIN par.buf |->
       IF i \div par.img.w = y THEN FromStdColor(par.img.data[i])
       ELSE par.buf[i]]

\* the bitmap after the range filter closure has run row y; it reads buf as
\* it is now
FilterRow(y) ==
    [i \in DOMAIN par.IsDelimiter |->
       IF i \div par.img.w = y
            /\ MaxDiff(par.buf, i % par.img.w, y, par.img.w, par.img.h)
                 > Threshold(10 * par.tol)
         THEN TRUE
         ELSE par.IsDelimiter[i]]

\* goroutine k runs one iteration of the row loop of its closure
ParRow(k) ==
    /\ par.pc \in {"spawn", "wait"}
    /\ k \in 1..Len(par.ws)
    /\ par.ws[k].y < par.ws[k].ey
    /\ LET y == par.ws[k].y
       IN IF par.strategy = "border"
            THEN par' = [par EXCEPT !.ws[k].y = y + 1,
                                    !.IsDelimiter = BorderRow(y)]
            ELSE IF par.phase = "buf"
              THEN par' = [par EXCEPT !.ws[k].y = y + 1,
                             !.buf = BufRow(y),
                             !.written = par.written \cup RowCells(par.img, y)]
              ELSE par' = [par EXCEPT !.ws[k].y = y + 1,
                                      !.IsDelimiter = FilterRow(y)]
    /\ UNCHANGED <<fz, ip, rc, det, czc, wm, pl, te, dlab>>

\* the closure of goroutine k has returned: the deferred wg.Done()
ParWorkerDone(k) ==
    /\ par.pc \in {"spawn", "wait"}
    /\ k \in 1..Len(par.ws)
    /\ par.ws[k].y >= par.ws[k].ey
    /\ ~par.ws[k].done
    /\ par' = [par EXCEPT !.ws[k].done = TRUE, !.wg = par.wg - 1]
    /\ UNCHANGED <<fz, ip, rc, det, czc, wm, pl, te, dlab>>

\* ColorDelimiter.Detect between its two calls of parallelRows, without the
\* wait of the first (a mutant of ColorBufReady)
ColorBufReadyNoWait ==
    /\ par.pc = "wait"
    /\ par.strategy = "color"
    /\ par.phase = "buf"
    /\ par' = [par EXCEPT !.pc = "spawn", !.phase = "filter",
                 !.IsDelimiter = [i \in 0..(par.img.w * par.img.h - 1) |-> FALSE],
                 !.worker = 0, !.wg = 0, !.ws = <<>>]
    /\ UNCHANGED <<fz, ip, rc, det, czc, wm, pl, te, dlab>>

\* wg.Wait() of the first parallelRows of ColorDelimiter.Detect returns; the
\* threshold and the bitmap are made and the second parallelRows is called
ColorBufReady ==
    /\ par.pc = "wait"
    /\ par.wg = 0
    /\ par.strategy = "color"
    /\ par.phase = "buf"
    /\ par' = [par EXCEPT !.pc = "spawn", !.phase = "filter",
                 !.IsDelimiter = [i \in 0..(par.img.w * par.img.h - 1) |-> FALSE],
                 !.worker = 0, !.wg = 0, !.ws = <<>>]
    /\ UNCHANGED <<fz, ip, rc, det, czc, wm, pl, te, dlab>>

\* wg.Wait() of the parallelRows that fills the bitmap returns, and Detect
\* returns dm
ParReturn ==
    /\ par.pc = "wait"
    /\ par.wg = 0
    /\ par.phase = "filter"
    /\ par' = [par EXCEPT !.pc = "done"]
    /\ UNCHANGED <<fz, ip, rc, det, czc, wm, pl, te, dlab>>

\* the colours of the pixels: two greys at and just beyond 20 percent of the
\* largest distance from black, and black without alpha
Gray51 == RGBA(51, 51, 51, 255)
OffGray51 == RGBA(52, 51, 51, 255)
White == RGBA(255, 255, 255, 255)
ParColors == <<Black, Gray51, Transparent, OffGray51, Gray100, White>>

\* images whose pixels run through the colours, from two starting points
ParImages ==
    {[w |-> w, h |-> h,
      data |-> [i \in 0..(w * h - 1) |-> ParColors[((i + s) % Len(ParColors)) + 1]]] :
        w \in 0..ParW, h \in 0..ParH, s \in {0, 3}}

\* tolerances in percent
ParTolerances == {0, 10, 20, 100}

ParRefs == {Black, Gray100}

\* one-pixel-wide images of 8 rows (8 workers of one row), of 9 rows (5
\* workers, the last with a shorter band) and of 17 rows (6 workers)
TallImage(h) ==
    [w |-> 1, h |-> h,
     data |-> [i \in 0..(h - 1) |-> ParColors[(i % Len(ParColors)) + 1]]]

InitWorkers ==
    /\ \/ \E img \in ParImages, t \in ParTolerances :
            \/ \E ref \in ParRefs : par = ParInit("border", img, ref, t)
            \/ par = ParInit("color", img, ZeroColor, t)
       \/ \E h \in {8, 9, 17} : par = ParInit("border", TallImage(h), Black, 20)
       \/ par = ParInit("color", TallImage(9), ZeroColor, 20)
    /\ fz = Idle
    /\ ip = Idle
    /\ rc = Idle
    /\ det = Idle
    /\ czc = Idle
    /\ wm = Idle
    /\ pl = Idle
    /\ te = Idle
    /\ dlab = Idle

NextWorkers ==
    \/ BorderStart
    \/ ColorStart
    \/ ParSpawn
    \/ ParSpawnEnd
    \/ \E k \in 1..NumWorkers : ParRow(k)
    \/ \E k \in 1..NumWorkers : ParWorkerDone(k)
    \/ ColorBufReady
    \/ ParReturn

SpecWorkers == InitWorkers /\ [][NextWorkers]_vars

(***************************************************************************)
(* Properties of the two Detect methods run with their goroutines.         *)
(***************************************************************************)
ParDone == par.pc = "done"

ParCells == 0..(par.img.w * par.img.h - 1)

\* the squared RGB distance of the image's pixel i to the reference colour
SqToRef(i) ==
    LET c == par.img.data[i]
    IN (c.R - par.ref.R) * (c.R - par.ref.R)
         + (c.G - par.ref.G) * (c.G - par.ref.G)
         + (c.B - par.ref.B) * (c.B - par.ref.B)

\* C11: under the border strategy a pixel is boundary exactly when its
\* Euclidean RGB distance to the reference colour is at most
\* (tolerancePct / 100) x sqrt(3 x 255^2) (squared and scaled:
\* 100^2 x dist^2 <= tol^2 x 3 x 255^2); alpha plays no part, and at
\* tolerance 0 exactly the pixels with the reference's R, G and B are
\* boundary.
C11_BorderIffWithinDistance ==
    (ParDone /\ par.strategy = "border") =>
      /\ DOMAIN par.IsDelimiter = ParCells
      /\ \A i \in ParCells :
           par.IsDelimiter[i]
             <=> (100 * 100 * SqToRef(i) <= par.tol * par.tol * 3 * 255 * 255)
      /\ par.tol = 0 =>
           \A i \in ParCells :
             par.IsDelimiter[i]
               <=> /\ par.img.data[i].R = par.ref.R
                   /\ par.img.data[i].G = par.ref.G
                   /\ par.img.data[i].B = par.ref.B

\* C11 witness: a finished border call with black as reference at 20 percent,
\* where the grey exactly at the threshold and the black without alpha are
\* boundary and the grey just beyond the threshold is not
C11_Witness ==
    /\ ParDone
    /\ par.strategy = "border"
    /\ par.ref = Black
    /\ par.tol = 20
    /\ \E i, j, k \in ParCells :
         /\ par.img.data[i] = Gray51 /\ par.IsDelimiter[i]
         /\ par.img.data[j] = Transparent /\ par.IsDelimiter[j]
         /\ par.img.data[k] = OffGray51 /\ ~par.IsDelimiter[k]

\* the rows of the band of goroutine k
BandOf(k) == par.ws[k].sy..(par.ws[k].ey - 1)

\* the bitmap of a row-by-row computation by one thread
SequentialBitmap ==
    IF par.strategy = "border"
      THEN [i \in ParCells |->
              WithinTolerance(FromStdColor(par.img.data[i]), par.ref, par.tol)]
      ELSE LET buf == [i \in ParCells |-> FromStdColor(par.img.data[i])]
           IN [i \in ParCells |->
                 MaxDiff(buf, i % par.img.w, i \div par.img.w,
                         par.img.w, par.img.h) > Threshold(10 * par.tol)]

\* the bands of the goroutines started are within the image and pairwise
\* disjoint, there are at most 8; once the spawn loop is over every row is in
\* exactly one band; the bitmap returned is that of the sequential computation
C12_Bands ==
    /\ par.pc \in {"spawn", "wait", "done"} =>
         /\ Len(par.ws) <= 8
         /\ \A k \in 1..Len(par.ws) :
              0 <= par.ws[k].sy /\ par.ws[k].sy <= par.ws[k].ey
                /\ par.ws[k].ey <= par.img.h
         /\ \A k, l \in 1..Len(par.ws) :
              k # l => BandOf(k) \cap BandOf(l) = {}
    /\ par.pc \in {"wait", "done"} =>
         \A y \in 0..(par.img.h - 1) :
           Cardinality({k \in 1..Len(par.ws) : y \in BandOf(k)}) = 1
    /\ ParDone => par.IsDelimiter = SequentialBitmap

\* a step that changes a cell of the bitmap or of the colour buffer is a step
\* of a goroutine whose band holds the cell's row
C12_OwnRows ==
    (par.pc \in {"spawn", "wait"} /\ par'.pc \in {"spawn", "wait"}
       /\ par'.phase = par.phase) =>
      \A i \in ParCells :
        (\/ (par.phase = "filter" /\ par'.IsDelimiter[i] # par.IsDelimiter[i])
         \/ (par.phase = "buf" /\ par'.buf[i] # par.buf[i]))
          => \E k \in 1..Len(par.ws) :
               /\ par'.ws[k].y = par.ws[k].y + 1
               /\ (i \div par.img.w) \in BandOf(k)

\* C12: in both strategies the row bands parallelRows hands to its workers are
\* pairwise disjoint and cover every row 0..h-1 exactly once, with at most 8
\* workers; each worker writes only cells of its own rows; the bitmap is the
\* same for every interleaving and equal to a sequential row-by-row
\* computation.
C12_BandsPartitionRows == [](C12_Bands) /\ [][C12_OwnRows]_vars

\* C12 witness: a finished call of 5 workers, the last with a shorter band
\* than the first, on an image with boundary and non-boundary pixels
C12_Witness ==
    /\ ParDone
    /\ Len(par.ws) = 5
    /\ Cardinality(BandOf(1)) = 2
    /\ Cardinality(BandOf(5)) = 1
    /\ \E i, j \in ParCells : par.IsDelimiter[i] /\ ~par.IsDelimiter[j]

\* Detect has returned only with every goroutine finished and every row run;
\* in the range filter of ColorDelimiter.Detect every cell of buf is written
C18_Complete ==
    /\ ParDone =>
         /\ \A k \in 1..Len(par.ws) : par.ws[k].done /\ par.ws[k].y = par.ws[k].ey
         /\ \A y \in 0..(par.img.h - 1) : \E k \in 1..Len(par.ws) : y \in BandOf(k)
         /\ DOMAIN par.IsDelimiter = ParCells
    /\ (par.strategy = "color" /\ par.phase = "filter") =>
         /\ par.written = ParCells
         /\ par.buf = [i \in ParCells |-> FromStdColor(par.img.data[i])]

\* parallelRows returns only when every goroutine it started has finished
C18_WaitsForAll ==
    (par.pc = "wait" /\ par'.pc # "wait") =>
      \A k \in 1..Len(par.ws) : par.ws[k].done /\ par.ws[k].y = par.ws[k].ey

\* C18: parallelRows returns only after every worker it started has finished,
\* so Detect returns a complete bitmap, and in ColorDelimiter.Detect every
\* cell of the colour buffer is written before any range-filter worker reads
\* from it.
C18_StagesDoNotOverlap == [](C18_Complete) /\ [][C18_WaitsForAll]_vars

\* C18 witness: a colour call of several workers has returned a bitmap with a
\* boundary pixel
C18_Witness ==
    /\ ParDone
    /\ par.strategy = "color"
    /\ Len(par.ws) >= 3
    /\ par.written = ParCells
    /\ \E i \in ParCells : par.IsDelimiter[i]

(***************************************************************************)
(* ComputeZoneColors with its worker pool: the work channel holds the zone *)
(* indices, filled and closed before the workers start; a worker takes an  *)
(* index, computes the mean, and sends it on ch in a second step; the      *)
(* caller receives len(zones) results.                                     *)
(***************************************************************************)
\* largest number of zones given to ComputeZoneColors
PoolZones == 3

\* the size of the worker pool
PoolWorkers == 8

\* img.At(p.X, p.Y) of an image whose bounds hold p
At(img, p) == img.data[p.Y * img.w + p.X]

\* the colors slice a worker builds for the zone with these pixels
PixelColors(img, Pixels) ==
    [j \in 1..Len(Pixels) |-> FromStdColor(At(img, Pixels[j]))]

\* the state of a call of ComputeZoneColors(zones, img); zones is the list of
\* the zones' pixel lists
PoolInit(zones, img) ==
    [pc |-> "start", zones |-> zones, img |-> img, Colors |-> <<>>,
     work |-> <<>>, ch |-> <<>>, numWorkers |-> 0, w |-> 0, ws |-> <<>>,
     received |-> 0]

\* zc.Colors is made, work is filled and closed, numWorkers is set
PoolStart ==
    /\ czc.pc = "start"
    /\ LET n == Len(czc.zones)
       IN czc' = [czc EXCEPT !.pc = "spawn",
                    !.Colors = [i \in 1..n |-> ZeroColor],
                    !.work = [i \in 1..n |-> i - 1],
                    !.ch = <<>>,
                    !.numWorkers = IF n < PoolWorkers THEN n ELSE PoolWorkers,
                    !.w = 0]
    /\ UNCHANGED <<fz, ip, rc, det, par, wm, pl, te, dlab>>

\* one iteration of the loop that starts the workers
PoolSpawn ==
    /\ czc.pc = "spawn"
    /\ czc.w < czc.numWorkers
    /\ czc' = [czc EXCEPT !.w = czc.w + 1,
                 !.ws = Append(czc.ws, [st |-> "recv", idx |-> 0, c |-> ZeroColor])]
    /\ UNCHANGED <<fz, ip, rc, det, par, wm, pl, te, dlab>>

\* the loop that starts the workers is over; the caller starts to receive
PoolSpawnEnd ==
    /\ czc.pc = "spawn"
    /\ czc.w >= czc.numWorkers
    /\ czc' = [czc EXCEPT !.pc = "collect", !.received = 0]
    /\ UNCHANGED <<fz, ip, rc, det, par, wm, pl, te, dlab>>

\* worker k receives an index from work and computes the zone's mean colour
WorkerTake(k) ==
    /\ czc.pc \in {"spawn", "collect", "done"}
    /\ k \in 1..Len(czc.ws)
    /\ czc.ws[k].st = "recv"
    /\ Len(czc.work) > 0
    /\ LET i == Head(czc.work)
           colors == PixelColors(czc.img, czc.zones[i + 1])
       IN czc' = [czc EXCEPT !.work = Tail(czc.work),
                    !.ws[k] = [st |-> "send", idx |-> i,
                               c |-> WeightedMean(colors, <<>>)]]
    /\ UNCHANGED <<fz, ip, rc, det, par, wm, pl, te, dlab>>

\* worker k sends its result on ch, which has room for every result
WorkerSend(k) ==
    /\ czc.pc \in {"spawn", "collect", "done"}
    /\ k \in 1..Len(czc.ws)
    /\ czc.ws[k].st = "send"
    /\ czc' = [czc EXCEPT !.ch = Append(czc.ch, [idx |-> czc.ws[k].idx,
                                                  c |-> czc.ws[k].c]),
                 !.ws[k] = [st |-> "recv", idx |-> 0, c |-> ZeroColor]]
    /\ UNCHANGED <<fz, ip, rc, det, par, wm, pl, te, dlab>>

\* work is never seen closed, as when close(work) is left out: the worker
\* waits for ever (a mutant of WorkerExit)
WorkerExitNever(k) ==
    /\ FALSE
    /\ UNCHANGED vars

\* worker k finds work closed and empty: its range loop and it end
WorkerExit(k) ==
    /\ czc.pc \in {"spawn", "collect", "done"}
    /\ k \in 1..Len(czc.ws)
    /\ czc.ws[k].st = "recv"
    /\ Len(czc.work) = 0
    /\ czc' = [czc EXCEPT !.ws[k].st = "exit"]
    /\ UNCHANGED <<fz, ip, rc, det, par, wm, pl, te, dlab>>

\* the slot a result is stored in when results are stored in the order they
\* arrive (a mutant of Slot)
SlotInArrivalOrder(r, received) == received + 1

\* the slot of zc.Colors a result is stored in: the zone's index
Slot(r, received) == r.idx + 1

\* one iteration of the caller's receive loop
PoolReceive ==
    /\ czc.pc = "collect"
    /\ czc.received < Len(czc.zones)
    /\ Len(czc.ch) > 0
    /\ LET r == Head(czc.ch)
       IN czc' = [czc EXCEPT !.ch = Tail(czc.ch),
                    !.Colors[Slot(r, czc.received)] = r.c,
                    !.received = czc.received + 1]
    /\ UNCHANGED <<fz, ip, rc, det, par, wm, pl, te, dlab>>

\* the receive loop has run len(zones) times: return zc
PoolReturn ==
    /\ czc.pc = "collect"
    /\ czc.received >= Len(czc.zones)
    /\ czc' = [czc EXCEPT !.pc = "done"]
    /\ UNCHANGED <<fz, ip, rc, det, par, wm, pl, te, dlab>>

\* the images: strips of four pixels
DarkGray == RGBA(1, 1, 1, 255)
PoolImages ==
    {[w |-> 4, h |-> 1, data |-> [i \in 0..3 |-> d[i + 1]]] :
       d \in {<<DarkGray, White, Black, Blue>>,
              <<Black, White, Gray100, White>>,
              <<Transparent, RGBA(100, 152, 100, 200), Gray100, Gray51>>}}

\* the pixel lists of the zones: runs of the strip
PoolPixelLists ==
    LET runs == {RowMajor(Rect(x, 0, n, 1)) : x \in 0..3, n \in 1..3}
    IN {r \in runs : \A j \in 1..Len(r) : r[j].X <= 3}

\* lists of up to PoolZones zones, no pixel in two of them
PoolZoneLists ==
    {zs \in UNION {[1..n -> PoolPixelLists] : n \in 0..PoolZones} :
       \A a, b \in 1..Len(zs) :
         a # b => SeqToSet(zs[a]) \cap SeqToSet(zs[b]) = {}}

InitPool ==
    /\ \E zs \in PoolZoneLists, img \in PoolImages : czc = PoolInit(zs, img)
    /\ fz = Idle
    /\ ip = Idle
    /\ rc = Idle
    /\ det = Idle
    /\ par = Idle
    /\ wm = Idle
    /\ pl = Idle
    /\ te = Idle
    /\ dlab = Idle

NextPool ==
    \/ PoolStart
    \/ PoolSpawn
    \/ PoolSpawnEnd
    \/ \E k \in 1..PoolWorkers : WorkerTake(k)
    \/ \E k \in 1..PoolWorkers : WorkerSend(k)
    \/ \E k \in 1..PoolWorkers : WorkerExit(k)
    \/ PoolReceive
    \/ PoolReturn

SpecPool == InitPool /\ [][NextPool]_vars

(***************************************************************************)
(* Properties of ComputeZoneColors.                                        *)
(***************************************************************************)
PoolDone == czc.pc = "done"

\* the zone indices of the results on their way: held by a worker about to
\* send, or in ch
PoolInFlight ==
    [k \in 1..Len(czc.ch) |-> czc.ch[k].idx]
      \o SelectSeq([k \in 1..Len(czc.ws) |->
                      IF czc.ws[k].st = "send" THEN czc.ws[k].idx ELSE -1],
                   LAMBDA i : i # -1)

\* C13: ComputeZoneColors returns a Colors list of length len(zones) with
\* Colors[i] the mean colour of zone i's own pixels, whatever the interleaving
\* and the completion order of the workers; on the way every zone's index is
\* in the work channel, with a worker, in ch or received, and never twice.
C13_ZoneColorsByIndex ==
    /\ czc.pc \in {"spawn", "collect", "done"} =>
         /\ Len(czc.work) + Len(PoolInFlight) + czc.received = Len(czc.zones)
         /\ \A a, b \in 1..Len(PoolInFlight) :
              a # b => PoolInFlight[a] # PoolInFlight[b]
         /\ \A a \in 1..Len(PoolInFlight), b \in 1..Len(czc.work) :
              PoolInFlight[a] # czc.work[b]
    /\ PoolDone =>
         /\ Len(czc.Colors) = Len(czc.zones)
         /\ \A i \in 1..Len(czc.zones) :
              czc.Colors[i]
                = WeightedMean(PixelColors(czc.img, czc.zones[i]), <<>>)

\* C13 witness: a call on three zones of three different mean colours has
\* returned
C13_Witness ==
    /\ PoolDone
    /\ Len(czc.zones) = 3
    /\ Cardinality({czc.Colors[i] : i \in 1..3}) = 3

\* the sum of channel c of the image's pixels at positions lo..hi of the list
RECURSIVE ChannelSum(_, _, _, _, _)
ChannelSum(img, Pixels, c, lo, hi) ==
    IF lo > hi THEN 0
    ELSE At(img, Pixels[lo])[c] + ChannelSum(img, Pixels, c, lo + 1, hi)

\* v is the integer nearest to sum / n, the upper one of two equally near
NearestHalfUp(v, sum, n) ==
    2 * n * v <= 2 * sum + n /\ 2 * sum + n < 2 * n * (v + 1)

\* C14: each zone's colour is, per channel, the unweighted arithmetic mean of
\* the zone's pixel values in the source image, rounded to the nearest
\* integer with halves rounded up, and lies in 0..255.
C14_ZoneColorIsRoundedMean ==
    PoolDone =>
      \A i \in 1..Len(czc.zones) : \A c \in {"R", "G", "B", "A"} :
        LET Pixels == czc.zones[i]
        IN Len(Pixels) > 0 =>
             /\ czc.Colors[i][c] \in 0..255
             /\ NearestHalfUp(czc.Colors[i][c],
                              ChannelSum(czc.img, Pixels, c, 1, Len(Pixels)),
                              Len(Pixels))

\* C14 witness: a zone of two pixels of values 1 and 255 has the colour 128,
\* and a zone of two pixels of values 0 and 255, whose mean is 127.5, has it
\* too
C14_Witness ==
    /\ PoolDone
    /\ \E i, k \in 1..Len(czc.zones) :
         /\ Len(czc.zones[i]) = 2
         /\ {At(czc.img, czc.zones[i][j]).R : j \in 1..2} = {1, 255}
         /\ czc.Colors[i].R = 128
         /\ Len(czc.zones[k]) = 2
         /\ {At(czc.img, czc.zones[k][j]).B : j \in 1..2} = {0, 255}
         /\ czc.Colors[k].B = 128

(***************************************************************************)
(* color.WeightedMean called on lists of colours with nil weights or with  *)
(* one weight per colour.                                                  *)
(***************************************************************************)
\* longest colour list and largest weight
MeanLen == 2
MeanWeight == 2

MeanColors == {Black, White, DarkGray, RGBA(100, 152, 100, 200)}

\* the argument lists: weights <<>> is nil
MeanInputs ==
    UNION {
      {[colors |-> cs, weights |-> ws] :
         cs \in [1..n -> MeanColors],
         ws \in {<<>>} \cup [1..n -> 0..MeanWeight]}
      : n \in 0..MeanLen}

InitMean ==
    /\ \E a \in MeanInputs :
         wm = [pc |-> "call", colors |-> a.colors, weights |-> a.weights,
               result |-> ZeroColor]
    /\ fz = Idle
    /\ ip = Idle
    /\ rc = Idle
    /\ det = Idle
    /\ par = Idle
    /\ czc = Idle
    /\ pl = Idle
    /\ te = Idle
    /\ dlab = Idle

\* a call of color.WeightedMean(colors, weights)
WeightedMeanCall ==
    /\ wm.pc = "call"
    /\ wm' = [wm EXCEPT !.pc = "done",
                        !.result = WeightedMean(wm.colors, wm.weights)]
    /\ UNCHANGED <<fz, ip, rc, det, par, czc, pl, te, dlab>>

NextMean == WeightedMeanCall

SpecMean == InitMean /\ [][NextMean]_vars

\* the sum of channel c of the colours at positions lo..hi
RECURSIVE ColorSum(_, _, _, _)
ColorSum(colors, c, lo, hi) ==
    IF lo > hi THEN 0 ELSE colors[lo][c] + ColorSum(colors, c, lo + 1, hi)

\* C15: WeightedMean returns the zero colour (0,0,0,0) for an empty colour
\* list and when all weights are zero; with nil weights every colour has
\* weight 1; every result is a colour with channels in 0..255.
C15_WeightedMeanTotal ==
    wm.pc = "done" =>
      /\ \A c \in {"R", "G", "B", "A"} : wm.result[c] \in 0..255
      /\ Len(wm.colors) = 0 => wm.result = RGBA(0, 0, 0, 0)
      /\ (Len(wm.weights) > 0 /\ \A i \in 1..Len(wm.weights) : wm.weights[i] = 0)
           => wm.result = RGBA(0, 0, 0, 0)
      /\ (Len(wm.weights) = 0 /\ Len(wm.colors) > 0) =>
           \A c \in {"R", "G", "B", "A"} :
             NearestHalfUp(wm.result[c],
                           ColorSum(wm.colors, c, 1, Len(wm.colors)),
                           Len(wm.colors))

\* C15 witness: a call with two colours that are not zero and two weights of
\* zero has returned the zero colour
C15_Witness ==
    /\ wm.pc = "done"
    /\ Len(wm.colors) = 2
    /\ wm.weights = <<0, 0>>
    /\ \A i \in 1..2 : wm.colors[i] # RGBA(0, 0, 0, 0)
    /\ wm.result = RGBA(0, 0, 0, 0)

(***************************************************************************)
(* The merge iterations of ReduceColors.                                   *)
(***************************************************************************)
\* the step is one iteration of the merge loop
IsMergeStep ==
    rc.pc = "merge" /\ rc'.pc = "merge" /\ rc'.iters = rc.iters + 1

\* the CIELAB distance of the representatives of groups a and b before the
\* step
GroupDist(a, b) == DistanceLAB(rc.groups[a].color, rc.groups[b].color)

\* the pairs of group positions in the order of the search
GroupPairs == {p \in (1..Len(rc.groups)) \X (1..Len(rc.groups)) : p[1] < p[2]}

\* p comes before q in ascending (i, j) order
PairBefore(p, q) == p[1] < q[1] \/ (p[1] = q[1] /\ p[2] < q[2])

\* the step merges group p[2] into group p[1]: p[1] keeps its place with the
\* zones of both, p[2] is gone, the others keep their order, and the new
\* representative is the mean of the original colours of the zones of the
\* group, each with weight 1
MergesPair(p) ==
    LET i  == p[1]
        j  == p[2]
        ids == rc'.groups[i].zoneIDs
        cols == [k \in 1..Len(ids) |-> rc.zoneColors[ids[k] + 1]]
    IN /\ Len(rc'.groups) = Len(rc.groups) - 1
       /\ \A k \in 1..Len(rc'.groups) :
            k # i => rc'.groups[k] = rc.groups[IF k < j THEN k ELSE k + 1]
       /\ ids = rc.groups[i].zoneIDs \o rc.groups[j].zoneIDs
       /\ \A c \in {"R", "G", "B", "A"} :
            NearestHalfUp(rc'.groups[i].color[c],
                          ColorSum(cols, c, 1, Len(cols)), Len(cols))

\* the pair merged by a merge iteration is the first, in ascending (i, j)
\* order, of the pairs whose distance is the smallest
C16_MergeStep ==
    IsMergeStep =>
      \E p \in GroupPairs :
        /\ \A q \in GroupPairs : GroupDist(p[1], p[2]) <= GroupDist(q[1], q[2])
        /\ \A q \in GroupPairs :
             GroupDist(q[1], q[2]) = GroupDist(p[1], p[2]) => ~PairBefore(q, p)
        /\ MergesPair(p)

\* red and near red share an entry, blue and near blue share another, green
\* has the third
C16_Scenario ==
    (RCDone /\ rc.zoneColors = <<Red, NearRed, Blue, NearBlue, Green>>
            /\ rc.maxColors = 3) =>
      /\ Len(rc.cm.Entries) = 3
      /\ rc.cm.ZoneMap[1] = rc.cm.ZoneMap[2]
      /\ rc.cm.ZoneMap[3] = rc.cm.ZoneMap[4]
      /\ rc.cm.ZoneMap[1] # rc.cm.ZoneMap[3]
      /\ \A k \in 1..4 : rc.cm.ZoneMap[5] # rc.cm.ZoneMap[k]

IPDone == ip.pc = "done"

IPZone == SeqToSet(ip.Pixels)

\* the points at exactly m steps (|dx| + |dy| = m) from p
Ring(p, m) ==
    {Pt(p.X + dx, p.Y + (m - Abs(dx))) : dx \in (-m)..m}
      \cup {Pt(p.X + dx, p.Y - (m - Abs(dx))) : dx \in (-m)..m}

RECURSIVE EdgeDistFrom(_, _, _)
EdgeDistFrom(S, p, m) ==
    IF \E q \in Ring(p, m) : q \notin S THEN m - 1
    ELSE EdgeDistFrom(S, p, m + 1)

\* the distance of zone pixel p to the edge of zone S
EdgeDist(S, p) == EdgeDistFrom(S, p, 1)

\* 15 for zones of at least 100 pixels, 5 otherwise
IPMargin == IF Len(ip.Pixels) >= 100 THEN 15 ELSE 5

\* c is sum / n with the fraction dropped
IsTruncated(c, sum, n) ==
    IF sum >= 0 THEN n * c <= sum /\ sum < n * (c + 1)
    ELSE n * (c - 1) < sum /\ sum <= n * c

\* the centroid used is the truncated mean of the pixel coordinates
IPCentroidIsMean ==
    /\ IsTruncated(ip.centroid.X, SumCoord(ip.Pixels, "X", 1, Len(ip.Pixels)),
                   Len(ip.Pixels))
    /\ IsTruncated(ip.centroid.Y, SumCoord(ip.Pixels, "Y", 1, Len(ip.Pixels)),
                   Len(ip.Pixels))

\* the zone pixels at least margin deep
IPDeepEnough == {p \in IPZone : EdgeDist(IPZone, p) >= IPMargin}

\* the position of zone pixel p in the pixel list
IPPos(p) == CHOOSE i \in 1..Len(ip.Pixels) : ip.Pixels[i] = p

\* p is the pixel of C nearest to the centroid, the earliest in the pixel list
\* among the nearest
NearestEarliest(p, C) ==
    /\ p \in C
    /\ \A q \in C :
         \/ SqDist(p, ip.centroid) < SqDist(q, ip.centroid)
         \/ (SqDist(p, ip.centroid) = SqDist(q, ip.centroid) /\ IPPos(p) <= IPPos(q))

\* C19: with margin 15 for zones of at least 100 pixels and 5 otherwise, and
\* the centroid the truncated mean of the pixel coordinates: when some zone
\* pixel is at least margin deep, InteriorPoint returns the pixel nearest to
\* the centroid among those at least margin deep, the earliest in the pixel
\* list among ties, and the centroid itself when it is such a pixel.
C19_NearestDeepPixel ==
    (IPDone /\ Len(ip.Pixels) > 0) =>
      /\ ip.margin = IPMargin
      /\ IPCentroidIsMean
      /\ IPDeepEnough # {} =>
           /\ NearestEarliest(ip.point, IPDeepEnough)
           /\ ip.centroid \in IPDeepEnough => ip.point = ip.centroid

\* C19 witness: two pixels are deep enough and equally near to the centroid,
\* which is not deep enough; the one returned is the first of them in the list
C19_Witness ==
    /\ IPDone
    /\ ip.centroid \in IPZone
    /\ ip.centroid \notin IPDeepEnough
    /\ \E q \in IPDeepEnough :
         /\ q # ip.point
         /\ SqDist(q, ip.centroid) = SqDist(ip.point, ip.centroid)
         /\ IPPos(ip.point) < IPPos(q)
    /\ ip.point \in IPDeepEnough

\* the zone pixels of the largest distance to the edge
IPDeepestPixels ==
    {p \in IPZone : \A q \in IPZone : EdgeDist(IPZone, q) <= EdgeDist(IPZone, p)}

\* C20: when no pixel of a non-empty zone is at least margin deep,
\* InteriorPoint returns a pixel of the largest distance to the edge, among
\* those the nearest to the centroid, among those the earliest in the pixel
\* list.
C20_DeepestPixelFallback ==
    (IPDone /\ Len(ip.Pixels) > 0 /\ IPDeepEnough = {}) =>
      NearestEarliest(ip.point, IPDeepestPixels)

\* C20 witness: a zone of 100 pixels with four pixels of the largest depth 4,
\* below its margin of 15: the one returned is the nearest to the centroid
C20_Witness ==
    /\ IPDone
    /\ Len(ip.Pixels) = 100
    /\ IPDeepEnough = {}
    /\ Cardinality(IPDeepestPixels) = 4
    /\ EdgeDist(IPZone, ip.point) = 4
    /\ \E q \in IPDeepestPixels :
         SqDist(q, ip.centroid) > SqDist(ip.point, ip.centroid)

(***************************************************************************)
(* Convert: Detect, FindZones, ComputeZoneColors, ReduceColors and Render  *)
(* one after the other, each stage run by its steps above and handed the   *)
(* results of the stages before it. Of the output image the model keeps    *)
(* the size, the pixels before any text or legend is drawn, the place and  *)
(* the number of every zone label, and the centre and the number of every  *)
(* legend item. The label goroutines of Render run one at a time, in any   *)
(* order.                                                                  *)
(***************************************************************************)
\* largest width and height of the images of every kind given to Convert
PipeW == 3
PipeH == 2

\* renderer.DefaultConfig
DefaultConfig ==
    [LegendPadding |-> 20, LegendCircleSize |-> 30, LegendSpacing |-> 15,
     LegendMargin |-> 20]

\* scaleLegendConfig for an image w wide
ScaleLegendConfig(cfg, w) ==
    IF w > 1000
      THEN [LegendPadding |-> 30, LegendCircleSize |-> 50, LegendSpacing |-> 25,
            LegendMargin |-> 30]
    ELSE IF w > 500
      THEN [LegendPadding |-> 24, LegendCircleSize |-> 36, LegendSpacing |-> 18,
            LegendMargin |-> 24]
    ELSE cfg

\* itemsPerRow of calculateLegendHeight and drawLegend
ItemsPerRow(cfg, imgW) ==
    LET itemWidth  == cfg.LegendCircleSize + cfg.LegendSpacing
        availableW == imgW - 2 * cfg.LegendMargin
        n          == GoDiv(availableW, itemWidth)
    IN IF n < 1 THEN 1 ELSE n

\* calculateLegendHeight without the return for an empty palette (a mutant of
\* CalculateLegendHeight)
CalculateLegendHeightAlways(cm, cfg, imgW) ==
    LET itemsPerRow == ItemsPerRow(cfg, imgW)
        numRows == GoDiv(Len(cm.Entries) + itemsPerRow - 1, itemsPerRow)
        rowHeight == cfg.LegendCircleSize + cfg.LegendSpacing
    IN cfg.LegendPadding + numRows * rowHeight + cfg.LegendPadding

\* calculateLegendHeight
CalculateLegendHeight(cm, cfg, imgW) ==
    IF Len(cm.Entries) = 0 THEN 0
    ELSE LET itemsPerRow == ItemsPerRow(cfg, imgW)
             numRows == GoDiv(Len(cm.Entries) + itemsPerRow - 1, itemsPerRow)
             rowHeight == cfg.LegendCircleSize + cfg.LegendSpacing
         IN cfg.LegendPadding + numRows * rowHeight + cfg.LegendPadding

\* the centres and numbers of the legend items drawLegend draws
DrawLegend(cm, cfg, imgW, drawingH) ==
    IF Len(cm.Entries) = 0 THEN <<>>
    ELSE LET itemWidth   == cfg.LegendCircleSize + cfg.LegendSpacing
             availableW  == imgW - 2 * cfg.LegendMargin
             itemsPerRow == ItemsPerRow(cfg, imgW)
             radius      == cfg.LegendCircleSize \div 2
         IN [k \in 1..Len(cm.Entries) |->
               LET i   == k - 1
                   row == i \div itemsPerRow
                   col == i % itemsPerRow
                   remaining == Len(cm.Entries) - row * itemsPerRow
                   rowItemCount == IF remaining < itemsPerRow THEN remaining
                                   ELSE itemsPerRow
                   rowWidth  == rowItemCount * itemWidth
                   rowStartX == cfg.LegendMargin + GoDiv(availableW - rowWidth, 2)
               IN [cx |-> rowStartX + col * itemWidth + radius,
                   cy |-> drawingH + cfg.LegendPadding
                            + row * (cfg.LegendCircleSize + cfg.LegendSpacing)
                            + radius,
                   Number |-> cm.Entries[k].Number,
                   Color |-> cm.Entries[k].Color]]

\* the 5 x 7 bitmaps of the digits 0 to 9, a row of bits per entry
Glyphs ==
    [d \in 0..9 |->
       << <<14, 17, 19, 21, 25, 17, 14>>, <<4, 12, 4, 4, 4, 4, 14>>,
          <<14, 17, 1, 6, 8, 16, 31>>,    <<14, 17, 1, 6, 1, 17, 14>>,
          <<2, 6, 10, 18, 31, 2, 2>>,     <<31, 16, 30, 1, 1, 17, 14>>,
          <<6, 8, 16, 30, 17, 17, 14>>,   <<31, 1, 2, 4, 8, 8, 8>>,
          <<14, 17, 17, 14, 17, 17, 14>>, <<14, 17, 17, 15, 1, 2, 12>> >>[d + 1]]

GlyphWidth == 5
GlyphHeight == 7

\* fmt.Sprintf("%d", n) for n >= 0, as the list of its digits
RECURSIVE Sprintf(_)
Sprintf(n) == IF n < 10 THEN <<n>> ELSE Append(Sprintf(n \div 10), n % 10)

\* the scale DrawString and MeasureString take for a font size
FontScale(size) == IF size \div GlyphHeight < 1 THEN 1 ELSE size \div GlyphHeight

\* BitmapFont.MeasureString of a text of n characters
MeasureString(n, size) ==
    IF n = 0 THEN [w |-> 0, h |-> 0]
    ELSE [w |-> n * (GlyphWidth * FontScale(size)) + (n - 1) * FontScale(size),
          h |-> GlyphHeight * FontScale(size)]

\* computeFontSize: min(imgW, imgH) / 30, times 0.7 over 50 zones and times
\* 0.5 over 200, rounded to the nearest integer and kept within 7..40
ComputeFontSize(imgW, imgH, numZones) ==
    LET m   == IF imgW < imgH THEN imgW ELSE imgH
        num == m * (IF numZones > 50 THEN 7 ELSE 10)
                 * (IF numZones > 200 THEN 5 ELSE 10)
        size == (2 * num + 3000) \div 6000
    IN IF size < 7 THEN 7 ELSE IF size > 40 THEN 40 ELSE size

\* the font size Render takes for the labels of the zones
LabelFontSize(srcW, srcH, numZones) ==
    LET fontSize == ComputeFontSize(srcW, srcH, numZones) \div 4
    IN IF fontSize < 7 THEN 7 ELSE fontSize

\* BitmapFont.DrawString on an image w wide and h high: the pixels it sets,
\* in the order of its loops over the characters, the rows and bits of a
\* glyph and the scale x scale block of a bit; a pixel outside the image is
\* skipped
DrawString(w, h, text, cx, cy, size) ==
    LET scale  == FontScale(size)
        m      == MeasureString(Len(text), size)
        startX == cx - GoDiv(m.w, 2)
        startY == cy - GoDiv(m.h, 2)
        cells  == [k \in 1..(Len(text) * GlyphHeight * GlyphWidth * scale * scale) |->
                     LET i   == k - 1
                         dx  == i % scale
                         dy  == (i \div scale) % scale
                         bit == (i \div (scale * scale)) % GlyphWidth
                         row == (i \div (scale * scale * GlyphWidth)) % GlyphHeight
                         ch  == i \div (scale * scale * GlyphWidth * GlyphHeight)
                     IN [on |-> (Glyphs[text[ch + 1]][row + 1]
                                   \div (2 ^ (GlyphWidth - 1 - bit))) % 2 = 1,
                         px |-> startX + ch * (GlyphWidth + 1) * scale
                                  + bit * scale + dx,
                         py |-> startY + row * scale + dy]]
        set    == SelectSeq(cells, LAMBDA c :
                     c.on /\ c.px >= 0 /\ c.px < w /\ c.py >= 0 /\ c.py < h)
    IN [k \in 1..Len(set) |-> set[k].py * w + set[k].px]

\* the state of a call of Convert(img, opts)
PipeInit(img, strategy, ref, tol, maxColors) ==
    [pc |-> "start", img |-> img, strategy |-> strategy, ref |-> ref,
     tol |-> tol, maxColors |-> maxColors,
     dm |-> [Width |-> 0, Height |-> 0, IsDelimiter |-> <<>>],
     zones |-> <<>>, labels |-> <<>>, zoneColors |-> <<>>,
     cm |-> [Entries |-> <<>>, ZoneMap |-> <<>>],
     out |-> [w |-> 0, h |-> 0, legendHeight |-> 0, pix |-> <<>>],
     pending |-> {}, cur |-> 0, drawn |-> <<>>, gor |-> <<>>,
     legend |-> <<>>]

\* delimiterFromOpts and the call of delim.Detect(img)
ConvertStart ==
    /\ pl.pc = "start"
    /\ par = Idle
    /\ par' = ParInit(pl.strategy, pl.img, pl.ref, pl.tol)
    /\ pl' = [pl EXCEPT !.pc = "detect"]
    /\ UNCHANGED <<fz, ip, rc, det, czc, wm, te, dlab>>

\* Detect has returned dm; the call of zone.FindZones(dm)
ConvertDetected ==
    /\ pl.pc = "detect"
    /\ par.pc = "done"
    /\ pl' = [pl EXCEPT !.pc = "zones",
                !.dm = [Width |-> par.img.w, Height |-> par.img.h,
                        IsDelimiter |-> par.IsDelimiter]]
    /\ fz' = FZInit(par.img.w, par.img.h, par.IsDelimiter)
    /\ par' = Idle
    /\ UNCHANGED <<ip, rc, det, czc, wm, te, dlab>>

\* FindZones has returned zones, labels; the call of ComputeZoneColors
ConvertZonesFound ==
    /\ pl.pc = "zones"
    /\ fz.pc = "done"
    /\ pl' = [pl EXCEPT !.pc = "colors", !.zones = fz.zones,
                        !.labels = fz.labels]
    /\ czc' = PoolInit([k \in 1..Len(fz.zones) |-> fz.zones[k].Pixels], pl.img)
    /\ fz' = Idle
    /\ UNCHANGED <<ip, rc, det, par, wm, te, dlab>>

\* ComputeZoneColors has returned; the call of ReduceColors
ConvertColorsComputed ==
    /\ pl.pc = "colors"
    /\ czc.pc = "done"
    /\ pl' = [pl EXCEPT !.pc = "reduce", !.zoneColors = czc.Colors]
    /\ rc' = [pc |-> "start", zoneColors |-> czc.Colors,
              maxColors |-> pl.maxColors, groups |-> <<>>, iters |-> 0,
              cm |-> [Entries |-> <<>>, ZoneMap |-> <<>>]]
    /\ czc' = Idle
    /\ UNCHANGED <<fz, ip, det, par, wm, te, dlab>>

\* RenderStart painting the delimiter pixels black whatever the source (a
\* mutant)
RenderStartBlack ==
    /\ pl.pc = "reduce"
    /\ rc.pc = "done"
    /\ LET cfg == ScaleLegendConfig(DefaultConfig, pl.img.w)
           srcW == pl.img.w
           srcH == pl.img.h
           legendHeight == CalculateLegendHeight(rc.cm, cfg, srcW)
           totalH == srcH + legendHeight
       IN pl' = [pl EXCEPT !.pc = "labels", !.cm = rc.cm,
                    !.out = [w |-> srcW, h |-> totalH,
                             legendHeight |-> legendHeight,
                             pix |-> [i \in 0..(srcW * totalH - 1) |->
                                        IF i < srcW * srcH /\ pl.dm.IsDelimiter[i]
                                          THEN Black
                                          ELSE White]],
                    !.pending = 1..Len(pl.zones),
                    !.drawn = <<>>,
                    !.gor = [z \in 1..Len(pl.zones) |->
                               [st |-> "point", todo |-> <<>>, wrote |-> {}]]]
    /\ rc' = Idle
    /\ UNCHANGED <<fz, ip, det, par, czc, wm, te, dlab>>

\* ReduceColors has returned cm; Render is called and runs up to its label
\* goroutines: the legend height, the white image, the delimiter pixels in
\* the colour of the source
RenderStart ==
    /\ pl.pc = "reduce"
    /\ rc.pc = "done"
    /\ LET cfg == ScaleLegendConfig(DefaultConfig, pl.img.w)
           srcW == pl.img.w
           srcH == pl.img.h
           legendHeight == CalculateLegendHeight(rc.cm, cfg, srcW)
           totalH == srcH + legendHeight
       IN pl' = [pl EXCEPT !.pc = "labels", !.cm = rc.cm,
                    !.out = [w |-> srcW, h |-> totalH,
                             legendHeight |-> legendHeight,
                             pix |-> [i \in 0..(srcW * totalH - 1) |->
                                        IF i < srcW * srcH /\ pl.dm.IsDelimiter[i]
                                          THEN pl.img.data[i]
                                          ELSE White]],
                    !.pending = 1..Len(pl.zones),
                    !.drawn = <<>>,
                    !.gor = [z \in 1..Len(pl.zones) |->
                               [st |-> "point", todo |-> <<>>, wrote |-> {}]]]
    /\ rc' = Idle
    /\ UNCHANGED <<fz, ip, det, par, czc, wm, te, dlab>>

\* the label goroutine of zone z looks up the zone's entry and calls
\* InteriorPoint; an index outside cm.ZoneMap or cm.Entries is a panic
RenderLabelStart(z) ==
    /\ pl.pc = "labels"
    /\ ip = Idle
    /\ z \in pl.pending
    /\ IF z \in DOMAIN pl.cm.ZoneMap
            /\ (pl.cm.ZoneMap[z] + 1) \in DOMAIN pl.cm.Entries
         THEN /\ pl' = [pl EXCEPT !.cur = z]
              /\ ip' = IPInit(pl.zones[z].Pixels)
         ELSE /\ pl' = [pl EXCEPT !.pc = "fault"]
              /\ ip' = ip
    /\ UNCHANGED <<fz, rc, det, par, czc, wm, te, dlab>>

\* InteriorPoint has returned: the goroutine calls DrawString for the entry's
\* number at the point
RenderLabelEnd ==
    /\ pl.pc = "labels"
    /\ ip.pc = "done"
    /\ LET Number == pl.cm.Entries[pl.cm.ZoneMap[pl.cur] + 1].Number
           fontSize == LabelFontSize(pl.img.w, pl.img.h, Len(pl.zones))
       IN pl' = [pl EXCEPT !.pending = pl.pending \ {pl.cur},
                    !.drawn = Append(pl.drawn,
                       [zone |-> pl.cur - 1, pos |-> ip.point, Number |-> Number]),
                    !.gor[pl.cur] =
                       [st |-> "draw",
                        todo |-> DrawString(pl.out.w, pl.out.h, Sprintf(Number),
                                            ip.point.X, ip.point.Y, fontSize),
                        wrote |-> {}]]
    /\ ip' = Idle
    /\ UNCHANGED <<fz, rc, det, par, czc, wm, te, dlab>>

\* the label goroutine of zone z sets the next pixel of its text to
\* color.Black
RenderLabelWrite(z) ==
    /\ pl.pc = "labels"
    /\ z \in DOMAIN pl.gor
    /\ pl.gor[z].st = "draw"
    /\ pl.gor[z].todo # <<>>
    /\ LET i == Head(pl.gor[z].todo)
       IN pl' = [pl EXCEPT !.out.pix[i] = Black,
                           !.gor[z].todo = Tail(pl.gor[z].todo),
                           !.gor[z].wrote = pl.gor[z].wrote \cup {i}]
    /\ UNCHANGED <<fz, ip, rc, det, par, czc, wm, te, dlab>>

\* DrawString has returned: the label goroutine of zone z is done
RenderLabelDone(z) ==
    /\ pl.pc = "labels"
    /\ z \in DOMAIN pl.gor
    /\ pl.gor[z].st = "draw"
    /\ pl.gor[z].todo = <<>>
    /\ pl' = [pl EXCEPT !.gor[z].st = "done"]
    /\ UNCHANGED <<fz, ip, rc, det, par, czc, wm, te, dlab>>

\* every label goroutine is done: drawLegend, and Convert returns the image;
\* the legend is kept as the list of its items, the pixels of the rows below
\* the drawing are not painted here
RenderLegend ==
    /\ pl.pc = "labels"
    /\ ip = Idle
    /\ pl.pending = {}
    /\ \A z \in DOMAIN pl.gor : pl.gor[z].st = "done"
    /\ pl' = [pl EXCEPT !.pc = "done",
                !.legend = DrawLegend(pl.cm,
                              ScaleLegendConfig(DefaultConfig, pl.img.w),
                              pl.img.w, pl.img.h)]
    /\ UNCHANGED <<fz, ip, rc, det, par, czc, wm, te, dlab>>

\* images of one colour, images with red, black and near red columns, and
\* chequered images, whose white pixels are zones of one pixel
PipeSmallImages ==
    UNION {
      {[w |-> w, h |-> h, data |-> [i \in 0..(w * h - 1) |-> c]] :
          c \in {Black, White}}
      \cup {[w |-> w, h |-> h,
             data |-> [i \in 0..(w * h - 1) |->
                         <<Red, Black, NearRed, Black>>[((i % w) % 4) + 1]]],
            [w |-> w, h |-> h,
             data |-> [i \in 0..(w * h - 1) |->
                         IF ((i % w) + (i \div w)) % 2 = 0 THEN White ELSE Black]]}
      : w \in 0..PipeW, h \in 0..PipeH}

\* a white diamond on black, alone and with a tail: zones with deep pixels
PipeDiamondImage(w, S) ==
    [w |-> w, h |-> 11,
     data |-> [i \in 0..(w * 11 - 1) |->
                 IF Pt(i % w, i \div w) \in S THEN White ELSE Black]]

PipeDeepImages ==
    {PipeDiamondImage(11, Diamond(Pt(5, 5), 5)),
     PipeDiamondImage(41, Diamond(Pt(5, 5), 5) \cup Rect(11, 5, 30, 1))}

\* a white diamond on a nearly black ground
PipeGrayDiamond ==
    [w |-> 11, h |-> 11,
     data |-> [i \in 0..120 |->
                 IF Pt(i % 11, i \div 11) \in Diamond(Pt(5, 5), 5)
                   THEN White ELSE DarkGray]]

InitPipeline ==
    /\ \/ \E img \in PipeSmallImages, m \in 0..2 :
            \/ \E t \in {0, 100} : pl = PipeInit(img, "border", Black, t, m)
            \/ pl = PipeInit(img, "color", ZeroColor, 10, m)
       \/ \E img \in PipeDeepImages : pl = PipeInit(img, "border", Black, 0, 0)
       \/ pl = PipeInit(PipeGrayDiamond, "border", Black, 10, 0)
    /\ fz = Idle
    /\ ip = Idle
    /\ rc = Idle
    /\ det = Idle
    /\ par = Idle
    /\ czc = Idle
    /\ wm = Idle
    /\ te = Idle
    /\ dlab = Idle

\* the steps of Convert and of the stages it calls; FindZones returns no
\* zone without pixels, so the step of InteriorPoint for such a zone is not
\* among them
NextPipeline ==
    \/ ConvertStart
    \/ BorderStart
    \/ ColorStart
    \/ ParSpawn
    \/ ParSpawnEnd
    \/ \E k \in 1..NumWorkers : ParRow(k)
    \/ \E k \in 1..NumWorkers : ParWorkerDone(k)
    \/ ColorBufReady
    \/ ParReturn
    \/ ConvertDetected
    \/ ScanExit
    \/ ScanRowEnd
    \/ ScanSkip
    \/ ScanStart
    \/ FillPop
    \/ FillEnd
    \/ ConvertZonesFound
    \/ PoolStart
    \/ PoolSpawn
    \/ PoolSpawnEnd
    \/ \E k \in 1..PoolWorkers : WorkerTake(k)
    \/ \E k \in 1..PoolWorkers : WorkerSend(k)
    \/ \E k \in 1..PoolWorkers : WorkerExit(k)
    \/ PoolReceive
    \/ PoolReturn
    \/ ConvertColorsComputed
    \/ ReduceEmpty
    \/ ReduceGroup
    \/ ReduceMerge
    \/ ReduceFinish
    \/ RenderStart
    \/ \E z \in 1..(PipeW * PipeH + 1) : RenderLabelStart(z)
    \/ IPSetup
    \/ IPPropagate
    \/ IPCentroid
    \/ IPNearStart
    \/ IPNearStep
    \/ IPNearFound
    \/ IPDeepStart
    \/ IPDeepStep
    \/ IPDeepDone
    \/ RenderLabelEnd
    \/ \E z \in 1..(PipeW * PipeH) : RenderLabelWrite(z)
    \/ \E z \in 1..(PipeW * PipeH) : RenderLabelDone(z)
    \/ RenderLegend

SpecPipeline == InitPipeline /\ [][NextPipeline]_vars

(***************************************************************************)
(* Properties of Convert.                                                  *)
(***************************************************************************)
PipeDone == pl.pc = "done"

PipeCells == 0..(pl.img.w * pl.img.h - 1)

\* C17: Convert never faults on degenerate but valid input and ends in a
\* normal result: no step panics, every state before the return has a next
\* step, and the image returned has the source's width and the source's
\* height plus the legend's; an empty image and an all-boundary image give
\* zero zones, an empty palette, an empty zone map and no legend; every zone
\* found, also of a single pixel, has a label at one of its pixels; zones of
\* identical colours share one entry.
C17_DegenerateInputsEndNormally ==
    /\ pl.pc # "fault"
    /\ pl.pc # "done" => ENABLED NextPipeline
    /\ pl.pc \in {"colors", "reduce", "labels", "done"} =>
         \A z \in 1..Len(pl.zones) : Len(pl.zones[z].Pixels) > 0
    /\ PipeDone =>
         /\ pl.out.w = pl.img.w
         /\ pl.out.h = pl.img.h + pl.out.legendHeight
         /\ DOMAIN pl.out.pix = 0..(pl.out.w * pl.out.h - 1)
         /\ (PipeCells = {} \/ \A i \in PipeCells : pl.dm.IsDelimiter[i])
              => pl.zones = <<>>
         /\ pl.zones = <<>> =>
              /\ pl.cm.Entries = <<>>
              /\ pl.cm.ZoneMap = <<>>
              /\ pl.out.legendHeight = 0
              /\ pl.legend = <<>>
              /\ pl.drawn = <<>>
         /\ Len(pl.cm.ZoneMap) = Len(pl.zones)
         /\ Len(pl.legend) = Len(pl.cm.Entries)
         /\ {pl.drawn[k].zone : k \in 1..Len(pl.drawn)} = 0..(Len(pl.zones) - 1)
         /\ \A k \in 1..Len(pl.drawn) :
              /\ pl.drawn[k].pos \in SeqToSet(pl.zones[pl.drawn[k].zone + 1].Pixels)
              /\ pl.drawn[k].Number \in 1..Len(pl.cm.Entries)
         /\ (pl.zones # <<>>
               /\ \A a, b \in 1..Len(pl.zoneColors) :
                    pl.zoneColors[a] = pl.zoneColors[b])
              => Len(pl.cm.Entries) = 1

\* C17 witness: Convert has returned for a chequered image: three zones of
\* one pixel each, all of one colour, one entry, three labels
C17_Witness ==
    /\ PipeDone
    /\ Len(pl.zones) = 3
    /\ \A z \in 1..3 : Len(pl.zones[z].Pixels) = 1
    /\ Len(pl.cm.Entries) = 1
    /\ Len(pl.drawn) = 3
    /\ pl.out.legendHeight > 0

(***************************************************************************)
(* The distance map of InteriorPoint once the propagation is over.         *)
(***************************************************************************)
\* a call on a non-empty zone has returned; its distance map is the one the
\* propagation loop left, the searches after it only read the map
IPPropagated == ip.pc = "done" /\ Len(ip.Pixels) > 0

\* the four 4-neighbours of p
Neighbours4(p) == {Pt(p.X - 1, p.Y), Pt(p.X + 1, p.Y), Pt(p.X, p.Y - 1), Pt(p.X, p.Y + 1)}

\* C21: the distance map gives every zone pixel a value >= 0, none is left
\* at -1; the value is 0 exactly for the zone pixels with a 4-neighbour
\* outside the zone, and for every other pixel it is the length of the
\* shortest 4-connected path inside the zone to a pixel of value 0: one more
\* than the smallest value among its neighbours, which with the zeros fixed
\* has the shortest path lengths as its only solution; it is also the number
\* of steps to the nearest point outside the zone, less one.
C21_DistanceMapIsShortestPath ==
    IPPropagated =>
      /\ DOMAIN ip.dist = IPZone
      /\ \A p \in IPZone :
           /\ ip.dist[p] >= 0
           /\ ip.dist[p] = 0 <=> (\E n \in Neighbours4(p) : n \notin IPZone)
           /\ ip.dist[p] > 0 =>
                /\ \A n \in Neighbours4(p) : ip.dist[n] >= ip.dist[p] - 1
                /\ \E n \in Neighbours4(p) : ip.dist[n] = ip.dist[p] - 1
           /\ ip.dist[p] = EdgeDist(IPZone, p)

\* C21 witness: the call on the diamond with a tail has returned; the
\* diamond's centre is 5 deep, the pixels of the tail are at the edge
C21_Witness ==
    /\ ip.pc = "done"
    /\ Len(ip.Pixels) = 91
    /\ ip.dist[Pt(5, 5)] = 5
    /\ ip.dist[Pt(4, 5)] = 4
    /\ ip.dist[Pt(20, 5)] = 0

(***************************************************************************)
(* The order in which FindZones numbers the zones.                         *)
(***************************************************************************)
\* the first pixel of the list of the k-th returned zone
FZFirst(k) == fz.zones[k].Pixels[1]

\* C22: zone ids are 0, 1, 2, ... in row-major discovery order: the zone at
\* index i has ID i, the first pixel of a zone's list is the zone's first
\* pixel in row-major order, and the first pixel of zone i comes before the
\* first pixel of zone i+1 in row-major order.
C22_IdsInDiscoveryOrder ==
    FZDone =>
      \A k \in 1..Len(fz.zones) :
        /\ fz.zones[k].ID = k - 1
        /\ Len(fz.zones[k].Pixels) >= 1
        /\ \A i \in 1..Len(fz.zones[k].Pixels) :
             FZIndex(FZFirst(k)) <= FZIndex(fz.zones[k].Pixels[i])
        /\ k < Len(fz.zones) => FZIndex(FZFirst(k)) < FZIndex(FZFirst(k + 1))

\* C22 witness: a finished run with two zones, the first of several pixels
\* that reaches below and beyond the first pixel of the second
C22_Witness ==
    /\ FZDone
    /\ Len(fz.zones) = 2
    /\ Len(fz.zones[1].Pixels) >= 2
    /\ \E i \in 1..Len(fz.zones[1].Pixels) :
         FZIndex(fz.zones[1].Pixels[i]) > FZIndex(FZFirst(2))

(***************************************************************************)
(* The merge loop of ReduceColors.                                         *)
(***************************************************************************)
\* the number of iterations the merge loop is to make: max(0, G - maxColors)
\* for G distinct input colours when maxColors > 0, none when maxColors = 0
MergeIterations ==
    IF rc.maxColors > 0 /\ RCDistinct > rc.maxColors
      THEN RCDistinct - rc.maxColors ELSE 0

\* the number of places of the groups' zone lists that hold zone id z
RECURSIVE GroupPlaces(_, _, _)
GroupPlaces(groups, z, k) ==
    IF k > Len(groups) THEN 0
    ELSE Occurrences(groups[k].zoneIDs, z) + GroupPlaces(groups, z, k + 1)

\* while the loop runs: it has made at most MergeIterations iterations and
\* goes on exactly when it has made fewer; every zone id is in exactly one
\* group, once, and the groups hold nothing else; a returned call on a
\* non-empty input has made exactly MergeIterations iterations
C23_LoopState ==
    /\ rc.pc = "merge" =>
         /\ rc.iters <= MergeIterations
         /\ MergeCond(rc.groups, rc.maxColors) <=> rc.iters < MergeIterations
         /\ Len(rc.groups) = RCDistinct - rc.iters
    /\ (rc.pc \in {"merge", "done"} /\ RCZones > 0) =>
         /\ \A z \in 0..(RCZones - 1) : GroupPlaces(rc.groups, z, 1) = 1
         /\ \A k \in 1..Len(rc.groups) :
              SeqToSet(rc.groups[k].zoneIDs) \subseteq 0..(RCZones - 1)
    /\ (RCDone /\ RCZones > 0) => rc.iters = MergeIterations

\* an iteration has two distinct valid group indices to merge and leaves one
\* group fewer
C23_LoopStep ==
    IsMergeStep =>
      LET b == ClosestPair(rc.groups)
      IN /\ b.bestI \in 0..(Len(rc.groups) - 1)
         /\ b.bestJ \in 0..(Len(rc.groups) - 1)
         /\ b.bestI # b.bestJ
         /\ Len(rc'.groups) = Len(rc.groups) - 1

\* C23: the merge loop of ReduceColors ends after exactly
\* max(0, G - maxColors) iterations when maxColors > 0, G being the number of
\* distinct input colours, and after none when maxColors = 0; every
\* iteration leaves exactly one group fewer, has two distinct valid group
\* indices, and keeps every zone id in exactly one group.
C23_MergeLoopTerminates == [](C23_LoopState) /\ [][C23_LoopStep]_vars

\* C23 witness: a call on four zones of three distinct colours has returned
\* after two iterations, with maxColors = 1
C23_Witness ==
    /\ RCDone
    /\ RCZones = 4
    /\ RCDistinct = 3
    /\ rc.maxColors = 1
    /\ rc.iters = 2
    /\ Len(rc.groups) = 1

(***************************************************************************)
(* Zones of one colour in the result of ReduceColors.                      *)
(***************************************************************************)
\* the repository's test TestReduceColors_DuplicateColors
ScenarioDuplicateColors ==
    (RCDone /\ rc.zoneColors = <<Red, Red, Blue, Red>> /\ rc.maxColors = 0) =>
      /\ Len(rc.cm.Entries) = 2
      /\ rc.cm.ZoneMap[1] = rc.cm.ZoneMap[2]
      /\ rc.cm.ZoneMap[1] = rc.cm.ZoneMap[4]
      /\ rc.cm.ZoneMap[3] # rc.cm.ZoneMap[1]

\* C24: for every maxColors >= 0, two zones whose input colours are equal in
\* all four channels map to the same palette entry.
C24_EqualColorsShareEntry ==
    /\ RCDone =>
         \A a, b \in 1..RCZones :
           rc.zoneColors[a] = rc.zoneColors[b]
             => rc.cm.ZoneMap[a] = rc.cm.ZoneMap[b]
    /\ ScenarioDuplicateColors

\* C24 witness: a reduction with merges has returned several entries for
\* zones among which two have one colour and two others differ in alpha only
C24_Witness ==
    /\ RCDone
    /\ rc.maxColors = 2
    /\ rc.iters >= 1
    /\ Len(rc.cm.Entries) = 2
    /\ \E a, b \in 1..RCZones : a # b /\ rc.zoneColors[a] = rc.zoneColors[b]
    /\ \E a, b \in 1..RCZones :
         rc.zoneColors[a] = Black /\ rc.zoneColors[b] = Transparent

(***************************************************************************)
(* The colours of the palette ReduceColors returns.                        *)
(***************************************************************************)
\* C25: in the palette returned by ReduceColors no two entries have the same
\* colour, for every input and every maxColors, also after merges whose
\* rounded mean coincides with the colour of another surviving group.
C25_EntriesHaveDistinctColors ==
    RCDone =>
      \A i, j \in 1..Len(rc.cm.Entries) :
        i # j => rc.cm.Entries[i].Color # rc.cm.Entries[j].Color

(***************************************************************************)
(* The label goroutines of Render. They run between wg.Add(len(zones)) and *)
(* wg.Wait() with nothing ordering the writes of one against the writes of *)
(* another.                                                                *)
(***************************************************************************)
\* C26: while Render draws the labels, one goroutine per zone into the same
\* output image, no two goroutines ever write the same output pixel: the
\* glyph areas of different zones never overlap.
C26_LabelWritesDisjoint ==
    pl.pc \in {"labels", "done"} =>
      \A a, b \in DOMAIN pl.gor :
        a # b => pl.gor[a].wrote \cap pl.gor[b].wrote = {}

(***************************************************************************)
(* The drawing area of the image Render returns.                           *)
(***************************************************************************)
\* the pixels of the texts of the labels drawn
LabelPixels ==
    UNION {SeqToSet(DrawString(pl.out.w, pl.out.h, Sprintf(pl.drawn[k].Number),
                               pl.drawn[k].pos.X, pl.drawn[k].pos.Y,
                               LabelFontSize(pl.img.w, pl.img.h, Len(pl.zones)))) :
           k \in 1..Len(pl.drawn)}

IsBlackRGB(c) == c.R = 0 /\ c.G = 0 /\ c.B = 0

PoolMany == 9

\* one iteration of the range loop of worker k
WorkerIterate(k) ==
    /\ czc.pc \in {"spawn", "collect", "done"}
    /\ k \in 1..Len(czc.ws)
    /\ czc.ws[k].st = "recv"
    /\ Len(czc.work) > 0
    /\ Len(czc.ch) < Len(czc.zones)
    /\ LET i == Head(czc.work)
           colors == PixelColors(czc.img, czc.zones[i + 1])
       IN czc' = [czc EXCEPT !.work = Tail(czc.work),
                    !.ch = Append(czc.ch, [idx |-> i,
                                           c |-> WeightedMean(colors, <<>>)])]
    /\ UNCHANGED <<fz, ip, rc, det, par, wm, pl, te, dlab>>

\* a strip of grays, one pixel per zone and one more
PoolStrip ==
    [w |-> PoolMany + 1, h |-> 1,
     data |-> [i \in 0..PoolMany |-> RGBA(20 * i, 20 * i, 20 * i, 255)]]

\* n zones: zone i is pixel i of the strip, the last zone has the next
\* pixel too
StripZones(n) ==
    [i \in 1..n |-> IF i = n THEN <<Pt(i - 1, 0), Pt(i, 0)>> ELSE <<Pt(i - 1, 0)>>]

InitPoolFair ==
    /\ \E n \in 0..PoolMany : czc = PoolInit(StripZones(n), PoolStrip)
    /\ fz = Idle
    /\ ip = Idle
    /\ rc = Idle
    /\ det = Idle
    /\ par = Idle
    /\ wm = Idle
    /\ pl = Idle
    /\ te = Idle
    /\ dlab = Idle

NextPoolFair ==
    \/ PoolStart
    \/ PoolSpawn
    \/ PoolSpawnEnd
    \/ \E k \in 1..PoolWorkers : WorkerIterate(k)
    \/ \E k \in 1..PoolWorkers : WorkerExit(k)
    \/ PoolReceive
    \/ PoolReturn

SpecPoolFair == InitPoolFair /\ [][NextPoolFair]_vars /\ WF_vars(NextPoolFair)

\* no send waits: the caller's sends on work are over once PoolStart is, and
\* while an index is left in work, ch has room for a result; ch never holds
\* more than it was made for
PoolSendsNeverWait ==
    czc.pc \in {"spawn", "collect", "done"} =>
      /\ Len(czc.ch) <= Len(czc.zones)
      /\ Len(czc.work) > 0 => Len(czc.ch) < Len(czc.zones)
      /\ Len(czc.ws) <= PoolWorkers
      /\ Len(czc.ws) <= Len(czc.zones)

\* the call has returned after len(zones) receives, nothing is left in work
\* or in ch, and every worker started has left its loop
PoolAllDone ==
    /\ czc.pc = "done"
    /\ czc.received = Len(czc.zones)
    /\ czc.work = <<>>
    /\ czc.ch = <<>>
    /\ Len(czc.ws) = (IF Len(czc.zones) < PoolWorkers THEN Len(czc.zones)
                      ELSE PoolWorkers)
    /\ \A k \in 1..Len(czc.ws) : czc.ws[k].st = "exit"

\* C27: ComputeZoneColors always terminates, for no zone, fewer than 8 and
\* more than 8 zones: no send on work or ch waits for ever, the caller
\* receives exactly len(zones) results and returns, and every worker leaves
\* its loop once work is drained.
C27_PoolTerminates == [](PoolSendsNeverWait) /\ <>[](PoolAllDone)

\* C27 witness: a call with more zones than workers has returned and its
\* eight workers are gone
C27_Witness ==
    /\ PoolAllDone
    /\ Len(czc.zones) = 9
    /\ Len(czc.ws) = 8
    /\ czc.received = 9

(***************************************************************************)
(* Two calls of Detect on one image with the border strategy, the second   *)
(* with a tolerance at least that of the first, as TestDetect_             *)
(* ToleranceExpands makes them; te is the state of the caller.             *)
(***************************************************************************)
\* the image of the test: 5 x 5 pixels of (20, 20, 20)
NearBlack == RGBA(20, 20, 20, 255)

SolidImage == [w |-> 5, h |-> 5, data |-> [i \in 0..24 |-> NearBlack]]

\* the caller before its first call
ExpandsInit(img, ref, low, high) ==
    [pc |-> "start", img |-> img, ref |-> ref, low |-> low, high |-> high,
     first |-> <<>>, second |-> <<>>]

\* the call of Detect with the lower tolerance
ExpandsFirst ==
    /\ te.pc = "start"
    /\ par = Idle
    /\ par' = ParInit("border", te.img, te.ref, te.low)
    /\ te' = [te EXCEPT !.pc = "first"]
    /\ UNCHANGED <<fz, ip, rc, det, czc, wm, pl, dlab>>

\* the first call has returned; the call with the higher tolerance
ExpandsSecond ==
    /\ te.pc = "first"
    /\ par.pc = "done"
    /\ par' = ParInit("border", te.img, te.ref, te.high)
    /\ te' = [te EXCEPT !.pc = "second", !.first = par.IsDelimiter]
    /\ UNCHANGED <<fz, ip, rc, det, czc, wm, pl, dlab>>

\* the second call has returned
ExpandsEnd ==
    /\ te.pc = "second"
    /\ par.pc = "done"
    /\ par' = Idle
    /\ te' = [te EXCEPT !.pc = "done", !.second = par.IsDelimiter]
    /\ UNCHANGED <<fz, ip, rc, det, czc, wm, pl, dlab>>

InitExpands ==
    /\ \/ \E img \in ParImages, ref \in ParRefs :
            \E low, high \in ParTolerances :
              low <= high /\ te = ExpandsInit(img, ref, low, high)
       \/ te = ExpandsInit(SolidImage, Black, 0, 10)
    /\ fz = Idle
    /\ ip = Idle
    /\ rc = Idle
    /\ det = Idle
    /\ par = Idle
    /\ czc = Idle
    /\ wm = Idle
    /\ pl = Idle
    /\ dlab = Idle

NextExpands ==
    \/ ExpandsFirst
    \/ BorderStart
    \/ ParSpawn
    \/ ParSpawnEnd
    \/ \E k \in 1..NumWorkers : ParRow(k)
    \/ \E k \in 1..NumWorkers : ParWorkerDone(k)
    \/ ParReturn
    \/ ExpandsSecond
    \/ ExpandsEnd

SpecExpands == InitExpands /\ [][NextExpands]_vars

\* the repository's test: near black is not boundary at 0 %, it is at 10 %
ScenarioToleranceExpands ==
    (te.pc = "done" /\ te.img = SolidImage) =>
      /\ ~te.first[0]
      /\ te.second[0]

\* C28: the border strategy is monotone in the tolerance: for t1 <= t2, every
\* pixel marked boundary at t1 is marked boundary at t2.
C28_ToleranceMonotone ==
    /\ te.pc = "done" =>
         /\ DOMAIN te.first = DOMAIN te.second
         /\ \A i \in DOMAIN te.first : te.first[i] => te.second[i]
    /\ ScenarioToleranceExpands

\* C28 witness: both calls have returned, with 10 % and 20 %; a pixel is
\* boundary in both, one in the second only, one in neither
C28_Witness ==
    /\ te.pc = "done"
    /\ te.low = 10
    /\ te.high = 20
    /\ \E i, j, k \in DOMAIN te.first :
         /\ te.first[i] /\ te.second[i]
         /\ ~te.first[j] /\ te.second[j]
         /\ ~te.first[k] /\ ~te.second[k]

(***************************************************************************)
(* Calls of DistanceLAB as TestDistanceLAB makes them: a colour with       *)
(* itself, and two colours in both orders; dlab is the state of the        *)
(* caller.                                                                 *)
(***************************************************************************)
\* the channel values of the colours tried; ToLAB is in units of 1/100 here,
\* so the values are taken far enough apart for it to tell the colours apart
LabLevels == {0, 64, 128, 192, 255}

LabColors(alphas) ==
    {RGBA(r, g, b, a) : r \in LabLevels, g \in LabLevels, b \in LabLevels,
                        a \in alphas}

\* the colours of the test
LabTestColors ==
    {RGBA(100, 150, 200, 255), Red, Blue, RGBA(255, 128, 0, 255)}

\* DistanceLAB(a, a)
DistanceSelf ==
    /\ dlab.pc = "start"
    /\ dlab' = [dlab EXCEPT !.pc = "self", !.aa = DistanceLAB(dlab.a, dlab.a)]
    /\ UNCHANGED <<fz, ip, rc, det, par, czc, wm, pl, te>>

\* DistanceLAB(a, b)
DistanceForward ==
    /\ dlab.pc = "self"
    /\ dlab' = [dlab EXCEPT !.pc = "forward", !.ab = DistanceLAB(dlab.a, dlab.b)]
    /\ UNCHANGED <<fz, ip, rc, det, par, czc, wm, pl, te>>

\* DistanceLAB(b, a)
DistanceBackward ==
    /\ dlab.pc = "forward"
    /\ dlab' = [dlab EXCEPT !.pc = "done", !.ba = DistanceLAB(dlab.b, dlab.a)]
    /\ UNCHANGED <<fz, ip, rc, det, par, czc, wm, pl, te>>

InitDistance ==
    /\ \E a \in LabColors({255}) \cup LabTestColors,
          b \in LabColors({0, 255}) \cup LabTestColors :
         dlab = [pc |-> "start", a |-> a, b |-> b, aa |-> -1, ab |-> -1, ba |-> -1]
    /\ fz = Idle
    /\ ip = Idle
    /\ rc = Idle
    /\ det = Idle
    /\ par = Idle
    /\ czc = Idle
    /\ wm = Idle
    /\ pl = Idle
    /\ te = Idle

NextDistance ==
    \/ DistanceSelf
    \/ DistanceForward
    \/ DistanceBackward

SpecDistance == InitDistance /\ [][NextDistance]_vars

====
